---------------------------- MODULE Spec2Model ----------------------------
(***************************************************************************)
(* Model of the VX API client (src/src/client.ts): configuration           *)
(* defaults, input validation of the memory operations, and the request    *)
(* pipeline VXClient.request with its retry loop, per-attempt timeout      *)
(* timer, status classification and exponential backoff.                   *)
(*                                                                         *)
(* One client is constructed (Init) and a caller invokes an operation on   *)
(* it.  The transport (fetch), the response body stream and the timers     *)
(* are the environment: every step they can take is an action.             *)
(*                                                                         *)
(* Representation.  An optional value is a sequence of length 0 or 1       *)
(* (<<>> is undefined).  A text that the code inspects character by        *)
(* character (store content) is a sequence of one-character strings.       *)
(* An error message is kept without its interpolated parts.  A URL is the   *)
(* sequence of its lexical tokens: ":" and "/" are tokens of their own, a   *)
(* scheme, a host and a path segment are one token each.                   *)
(***************************************************************************)
EXTENDS Integers, Sequences, FiniteSets, TLC

VARIABLES
  config,      \* this.config of the client (maxRetries, retryDelay)
  pc,          \* where the running operation is suspended
  op,          \* name of the operation in progress (or last finished)
  attempt,     \* loop variable `attempt` of request()
  lastError,   \* local `lastError` of request(): <<>> or <<error>>
  response,    \* status of the response whose body is being read, <<>> if none
  timer,       \* TRUE while the current attempt's timeout timer is pending
  stale,       \* attempts of the running call whose timer was left pending
  trace,       \* history: the fetch calls and sleeps of the operation, in order
  outcomes,    \* history: how each finished attempt of the operation ended
  reqOutcome,  \* how request() ended for this operation
  opOutcome,   \* how the operation ended for its caller
  opInput,     \* history: <<argument of the operation>>, where it is recorded
  other,       \* <<the locals of the other call made on the client>>
  ctor,        \* history: <<the constructor call>>, where it is recorded
  sent,        \* history: the requests passed to fetch by the operation
  tool         \* <<the tool call handled by the server>>, where there is one

vars == <<config, pc, op, attempt, lastError, response, timer, stale,
          trace, outcomes, reqOutcome, opOutcome, opInput, other, ctor,
          sent, tool>>

---------------------------------------------------------------------------
(* Bounds of the model and constants of the program *)

\* largest maxRetries value a caller passes explicitly (it may also pass -1 or none)
MaxRetriesInput == 2

\* largest latency (ms) the clock reports to healthCheck
MaxLatency == 1

DefaultMaxRetries == 3
DefaultRetryDelay == 1000

\* retryDelay as supplied to the constructor: absent or 1 ms
RetryDelayInputs == {<<>>, <<1>>}

\* The configurations passed to the constructor: the one that leaves
\* maxRetries and retryDelay to their defaults, and those that set
\* maxRetries (to -1 or to a count) with or without a retryDelay.
ConfigInputs ==
  {[maxRetries |-> <<>>, retryDelay |-> <<>>]} \cup
  [maxRetries : {<<n>> : n \in -1..MaxRetriesInput},
   retryDelay : RetryDelayInputs]

\* HTTP statuses the transport answers with
Statuses == {200, 400, 401, 403, 404, 418, 422, 429, 500, 501, 503}

\* response bodies: empty, a JSON object, a text that is not JSON
Bodies == {"", "{\"id\":\"m1\"}", "OK"}

Operations == {"store", "update", "query", "list", "delete",
               "getContextPacket", "healthCheck"}

---------------------------------------------------------------------------
(* Pure functions of client.ts *)

\* a || b: a supplied 0 is replaced by the default too
Coalesce_Falsy(opt, default) ==
  IF opt = <<>> \/ opt[1] = 0 THEN default ELSE opt[1]

\* a ?? b
Coalesce(opt, default) == IF opt = <<>> THEN default ELSE opt[1]

validateConfig(input) ==
  [maxRetries |-> Coalesce(input.maxRetries, DefaultMaxRetries),
   retryDelay |-> Coalesce(input.retryDelay, DefaultRetryDelay)]

mapStatusToErrorCode(status) ==
  CASE status \in {401, 403} -> "UNAUTHORIZED"
    [] status = 404 -> "NOT_FOUND"
    [] status \in {400, 422} -> "VALIDATION_ERROR"
    [] status = 429 -> "RATE_LIMITED"
    [] status \in {500, 502, 503, 504} -> "SERVER_ERROR"
    [] OTHER -> "UNKNOWN"

\* isRetryable without the 429 case: a rate-limited response is not retried
isRetryable_ServerErrorsOnly(status) == status >= 500 \/ status = 0

\* isRetryable with the wrong threshold: every error status is retried
isRetryable_AnyErrorStatus(status) == status >= 400 \/ status = 0

isRetryable(status) == status >= 500 \/ status = 429 \/ status = 0

\* Response.ok
ResponseOk(status) == status >= 200 /\ status <= 299

RECURSIVE Pow2(_)
\* Math.pow(2, n) for a loop index n >= 0
Pow2(n) == IF n <= 0 THEN 1 ELSE 2 * Pow2(n - 1)

\* backoff without the exponent: the same delay before every retry
BackoffDelay_Constant(cfg, att) == cfg.retryDelay

\* backoff growing linearly instead of doubling
BackoffDelay_Linear(cfg, att) == cfg.retryDelay * (att + 1)

\* this.config.retryDelay * Math.pow(2, attempt)
BackoffDelay(cfg, att) == cfg.retryDelay * Pow2(att)

\* new VXError(message, code, statusCode?, retryable = false)
VXError(message, code, statusCode, retryable) ==
  [name |-> "VXError", message |-> message, code |-> code,
   statusCode |-> statusCode, retryable |-> retryable]

\* new VXError(message, code): statusCode undefined, retryable defaults to false
VXError2(message, code) == VXError(message, code, <<>>, FALSE)

\* JSON.parse(text) for the bodies of the model
JSONParse(text) ==
  IF text = "{\"id\":\"m1\"}"
    THEN [ok |-> TRUE, value |-> "Object(id=m1)"]
    ELSE [ok |-> FALSE, value |-> "SyntaxError"]

---------------------------------------------------------------------------
(* Caller-supplied values and the validation layer of the operations *)

\* A JavaScript value as the validation code sees it: its typeof tag and, for
\* a string, its characters.
Undefined == [t |-> "undefined", v |-> <<>>]
Str(chars) == [t |-> "string", v |-> chars]
NumberFive == [t |-> "number", v |-> <<"5">>]

\* An importance value: its typeof tag and, for a number, whether it is NaN
\* and otherwise ten times the number (0.5 is 5), so that the range [0,1] is
\* 0..10.
NoImportance == [t |-> "undefined", n |-> 0, nan |-> FALSE]
Importance(tenths) == [t |-> "number", n |-> tenths, nan |-> FALSE]
ImportanceText == [t |-> "string", n |-> 0, nan |-> FALSE]
NotANumber == [t |-> "number", n |-> 0, nan |-> TRUE]

\* x < k and x > k for a number x: both are false when x is NaN
Below(x, k) == ~x.nan /\ x.n < k
Above(x, k) == ~x.nan /\ x.n > k

Whitespace == {" ", "\t", "\n"}

RECURSIVE TrimStart(_)
TrimStart(s) ==
  IF s # <<>> /\ Head(s) \in Whitespace THEN TrimStart(Tail(s)) ELSE s

RECURSIVE TrimEnd(_)
TrimEnd(s) ==
  IF s # <<>> /\ s[Len(s)] \in Whitespace
    THEN TrimEnd(SubSeq(s, 1, Len(s) - 1)) ELSE s

\* String.prototype.trim
Trim(s) == TrimEnd(TrimStart(s))

\* a number given by its decimal text, as Number.prototype.toString prints it
Num(digits) == [t |-> "number", v |-> digits]

\* !x for a value that is undefined, a string or a number
Falsy(x) ==
  \/ x.t = "undefined"
  \/ x.t = "string" /\ x.v = <<>>
  \/ x.t = "number" /\ x.v = <<"0">>

IdValues == {Undefined, Str(<<>>), Str(<<"m", "1">>), NumberFive}
ContentValues == {Undefined, NumberFive, Str(<<>>), Str(<<" ">>),
                  Str(<<"\t", "\n">>), Str(<<" ", "a", " ">>), Str(<<"a">>)}
ImportanceValues == {NoImportance, ImportanceText, NotANumber} \cup
                    {Importance(n) : n \in {-1, 0, 5, 10, 11}}
UpdateFields == {"content", "context", "memoryType"}

\* The inputs a caller can pass to each operation
Inputs(o) ==
  CASE o = "store" ->
         [content : ContentValues, importance : ImportanceValues]
    [] o = "update" ->
         [id : IdValues, fields : SUBSET UpdateFields,
          importance : ImportanceValues \ {ImportanceText}]
    [] o = "query" -> [query : IdValues]
    [] o = "delete" -> [id : IdValues]
    [] o = "getContextPacket" -> [topic : IdValues]
    [] OTHER -> {[none |-> TRUE]}

NoValidationError == "ok"

\* store() that tests the length of the content without trimming it
StoreValidation_NoTrim(input) ==
  IF input.content.t # "string"
    THEN "content is required and must be a string"
  ELSE IF Len(input.content.v) = 0
    THEN "content cannot be empty or whitespace"
  ELSE IF input.importance.t # "undefined"
          /\ (input.importance.t # "number"
              \/ Below(input.importance, 0) \/ Above(input.importance, 10))
    THEN "importance must be a number between 0 and 1"
  ELSE NoValidationError

\* The checks of store() before its request; the message of the error thrown
StoreValidation(input) ==
  IF input.content.t # "string"
    THEN "content is required and must be a string"
  ELSE IF Len(Trim(input.content.v)) = 0
    THEN "content cannot be empty or whitespace"
  ELSE IF input.importance.t # "undefined"
          /\ (input.importance.t # "number"
              \/ Below(input.importance, 0) \/ Above(input.importance, 10))
    THEN "importance must be a number between 0 and 1"
  ELSE NoValidationError

\* update() without the check that some field is supplied
UpdateValidation_NoFieldCheck(input) ==
  IF Falsy(input.id) \/ input.id.t # "string"
    THEN "id is required and must be a string"
  ELSE IF input.importance.t # "undefined"
          /\ (Below(input.importance, 0) \/ Above(input.importance, 10))
    THEN "importance must be between 0 and 1"
  ELSE NoValidationError

\* The checks of update() before its request
UpdateValidation(input) ==
  IF Falsy(input.id) \/ input.id.t # "string"
    THEN "id is required and must be a string"
  ELSE IF input.importance.t # "undefined"
          /\ (Below(input.importance, 0) \/ Above(input.importance, 10))
    THEN "importance must be between 0 and 1"
  ELSE IF input.fields = {} /\ input.importance.t = "undefined"
    THEN "At least one field to update is required"
  ELSE NoValidationError

QueryValidation(input) ==
  IF Falsy(input.query) \/ input.query.t # "string"
    THEN "query is required and must be a string"
    ELSE NoValidationError

DeleteValidation(input) ==
  IF Falsy(input.id) \/ input.id.t # "string"
    THEN "id is required and must be a string"
    ELSE NoValidationError

ContextPacketValidation(input) ==
  IF Falsy(input.topic) \/ input.topic.t # "string"
    THEN "topic is required and must be a string"
    ELSE NoValidationError

\* What the operation checks before it calls request()
Validation(o, input) ==
  CASE o = "store" -> StoreValidation(input)
    [] o = "update" -> UpdateValidation(input)
    [] o = "query" -> QueryValidation(input)
    [] o = "delete" -> DeleteValidation(input)
    [] o = "getContextPacket" -> ContextPacketValidation(input)
    [] OTHER -> NoValidationError

---------------------------------------------------------------------------
(* Outcomes and history records *)

Pending == [kind |-> "pending", value |-> "", error |-> <<>>, health |-> <<>>]
Return(v) == [kind |-> "result", value |-> v, error |-> <<>>, health |-> <<>>]
Raised(e) == [kind |-> "error", value |-> "", error |-> <<e>>, health |-> <<>>]
HealthResult(ok, latency) ==
  [kind |-> "result", value |-> "health", error |-> <<>>,
   health |-> <<[ok |-> ok, latency |-> latency]>>]

FetchEvent(att) == [ev |-> "fetch", n |-> att]
SleepEvent(ms) == [ev |-> "sleep", n |-> ms]

\* how an attempt ended: kind is one of success, http_error, parse_error,
\* body_error, network_error, timeout; with the status of the response, if
\* one arrived, and the body of a success response, if it was read
AttemptOutcome(kind, status, body) ==
  [kind |-> kind, status |-> status, body |-> body]

\* What the operation hands to its caller once request() has ended with ro:
\* healthCheck() without its catch: the error of request() reaches the caller
OperationOutcome_HealthPropagates(o, ro, latency) ==
  CASE o = "healthCheck" /\ ro.kind = "result" -> HealthResult(TRUE, latency)
    [] o = "delete" /\ ro.kind = "result" -> Return("undefined")
    [] OTHER -> ro

\* healthCheck() catches every error, delete() resolves to undefined, the
\* other operations return what request() returns or throws.
OperationOutcome(o, ro, latency) ==
  CASE o = "healthCheck" -> HealthResult(ro.kind = "result", latency)
    [] o = "delete" /\ ro.kind = "result" -> Return("undefined")
    [] OTHER -> ro

---------------------------------------------------------------------------
(* The constructor: the checks and the normalisation of validateConfig *)

\* schemes for which the URL parser requires a host
SpecialSchemes == {"http", "https", "ftp"}

\* every scheme name among the tokens of the model
SchemeNames == SpecialSchemes \cup {"mailto"}

RECURSIVE SkipSlashes(_)
SkipSlashes(s) ==
  IF s # <<>> /\ Head(s) = "/" THEN SkipSlashes(Tail(s)) ELSE s

\* new URL(text) does not throw: text starts with a scheme and ":", and
\* for a special scheme a host follows the slashes, however many they are
URLParses(text) ==
  /\ Len(text) >= 2
  /\ text[1] \in SchemeNames
  /\ text[2] = ":"
  /\ text[1] \in SpecialSchemes
       => SkipSlashes(SubSeq(text, 3, Len(text))) # <<>>

\* text.replace(/\/$/, ''): one slash at the end of the text is removed
StripTrailingSlash(text) ==
  IF text # <<>> /\ text[Len(text)] = "/"
    THEN SubSeq(text, 1, Len(text) - 1) ELSE text

\* base URLs passed to the constructor
UrlValues ==
  {Undefined, Str(<<>>),
   Str(<<"a.io">>),
   Str(<<"/", "a.io">>),
   Str(<<"https", ":", "/", "/">>),
   Str(<<"https", ":", "/", "/", "a.io">>),
   Str(<<"https", ":", "/", "/", "a.io", "/">>),
   Str(<<"https", ":", "/", "/", "a.io", "/", "/">>),
   Str(<<"http", ":", "/", "/", "a.io", "/", "api", "/">>),
   Str(<<"ftp", ":", "/", "/", "a.io">>),
   Str(<<"mailto", ":", "a.io">>)}

\* credentials passed to the constructor
KeyValues == {Undefined, Str(<<>>), Str(<<"k">>)}

\* maxRetries passed to the constructor of the construction layer
CtorRetries == {<<-1>>, <<0>>, <<1>>}

CtorInputs ==
  [apiUrl : UrlValues, apiKey : KeyValues, maxRetries : CtorRetries,
   retryDelay : {<<>>}]

\* validateConfig without the URL format check
ConfigValidation_NoUrlCheck(input) ==
  IF Falsy(input.apiUrl)
    THEN "VX_API_URL is required"
  ELSE IF Falsy(input.apiKey)
    THEN "VX_API_KEY is required"
  ELSE NoValidationError

\* The checks of validateConfig; the message of the error thrown
ConfigValidation(input) ==
  IF Falsy(input.apiUrl)
    THEN "VX_API_URL is required"
  ELSE IF Falsy(input.apiKey)
    THEN "VX_API_KEY is required"
  ELSE IF ~URLParses(input.apiUrl.v)
    THEN "Invalid VX_API_URL"
  ELSE NoValidationError

---------------------------------------------------------------------------
(* The request an operation hands to request() and the one fetch is given *)

\* the value of a field that an argument supplies without spelling it out
Supplied == Str(<<"x">>)

\* input.f: undefined when the argument has no property f
Get(arg, f) ==
  IF f \in DOMAIN arg THEN arg[f]
  ELSE IF "fields" \in DOMAIN arg /\ f \in arg.fields THEN Supplied
  ELSE Undefined

\* x || d
OrElse(x, d) == IF Falsy(x) THEN d ELSE x

\* x ?? d
Nullish(x, d) == IF x.t = "undefined" THEN d ELSE x

JsonNull == [t |-> "null", v |-> <<>>]

\* a value as JSON.stringify writes it: NaN is written as null
JsonValue(x) ==
  IF x.t = "number" /\ "nan" \in DOMAIN x /\ x.nan THEN JsonNull ELSE x

\* JSON.stringify(obj), as the object a JSON parser reads back from the
\* text: the properties whose value is undefined are left out
Stringify(obj) ==
  [k \in {f \in DOMAIN obj : obj[f].t # "undefined"} |-> JsonValue(obj[k])]

\* application/x-www-form-urlencoded serialisation of a text, token by
\* token: a space is written as "+"
FormEncode(chars) ==
  [i \in 1..Len(chars) |-> IF chars[i] = " " THEN "+" ELSE chars[i]]

\* if (input.f) params.set(f, text of input.f)
Param(name, x) ==
  IF Falsy(x) THEN <<>> ELSE <<[name |-> name, value |-> x.v]>>

\* the URLSearchParams that list() fills
SearchParams(input) ==
  Param("limit", Get(input, "limit"))
    \o Param("offset", Get(input, "offset"))
    \o Param("context", Get(input, "context"))
    \o Param("memoryType", Get(input, "memoryType"))

RECURSIVE ParamsToString(_)
\* URLSearchParams.prototype.toString
ParamsToString(ps) ==
  IF ps = <<>> THEN <<>>
  ELSE <<Head(ps).name, "=">> \o FormEncode(Head(ps).value)
         \o (IF Tail(ps) = <<>> THEN <<>>
             ELSE <<"&">> \o ParamsToString(Tail(ps)))

\* The path each operation passes to request(), as tokens
Endpoint(o, arg) ==
  CASE o = "store" -> <<"/", "v1", "/", "memories">>
    [] o = "update" -> <<"/", "v1", "/", "memories", "/">> \o arg.id.v
    [] o = "query" -> <<"/", "v1", "/", "query">>
    [] o = "list" ->
         LET queryString == ParamsToString(SearchParams(arg)) IN
           IF queryString # <<>>
             THEN <<"/", "v1", "/", "memories", "?">> \o queryString
             ELSE <<"/", "v1", "/", "memories">>
    [] o = "delete" -> <<"/", "v1", "/", "memories", "/">> \o arg.id.v
    [] o = "getContextPacket" -> <<"/", "v1", "/", "context-packet">>
    [] OTHER -> <<"/", "v1", "/", "health">>

\* `${this.config.apiUrl}${endpoint}`
RequestUrl(apiUrl, endpoint) == apiUrl \o endpoint

VERSION == Str(<<"0.3.0">>)

\* detectSource() in an environment without the markers of an editor
detectSource == Str(<<"mcp">>)

\* this.config.source and this.config.clientName of a client constructed
\* from input
ConfigSource(input) == Nullish(Get(input, "source"), detectSource)
ConfigClientName(input) ==
  Nullish(Get(input, "clientName"), Str(<<"mcp-server">>))

NoHeaders == <<>>

\* The options each operation passes to request(): the method and the body,
\* <<>> where the operation passes none, and no headers
RequestOptions(o, arg, input) ==
  CASE o = "store" ->
         [method |-> <<"POST">>,
          body |-> <<Stringify(
            [content |-> arg.content,
             context |-> Get(arg, "context"),
             memoryType |-> OrElse(Get(arg, "memoryType"),
                                   Str(<<"SEMANTIC">>)),
             importance |-> Nullish(arg.importance, Importance(5)),
             source |-> ConfigSource(input),
             metadata |-> [t |-> "object",
                           v |-> Stringify(
                             [source |-> ConfigSource(input),
                              client |-> ConfigClientName(input),
                              version |-> VERSION])]])>>,
          headers |-> NoHeaders]
    [] o = "update" ->
         [method |-> <<"PATCH">>,
          body |-> <<Stringify(
            [content |-> Get(arg, "content"),
             context |-> Get(arg, "context"),
             memoryType |-> Get(arg, "memoryType"),
             importance |-> arg.importance])>>,
          headers |-> NoHeaders]
    [] o = "query" ->
         [method |-> <<"POST">>,
          body |-> <<Stringify(
            [query |-> arg.query,
             limit |-> OrElse(Get(arg, "limit"), Num(<<"10">>)),
             context |-> Get(arg, "context"),
             memoryType |-> Get(arg, "memoryType")])>>,
          headers |-> NoHeaders]
    [] o = "delete" ->
         [method |-> <<"DELETE">>, body |-> <<>>, headers |-> NoHeaders]
    [] o = "getContextPacket" ->
         [method |-> <<"POST">>,
          body |-> <<Stringify(
            [query |-> arg.topic,
             maxTokens |-> OrElse(Get(arg, "maxTokens"),
                                  Num(<<"4000">>))])>>,
          headers |-> NoHeaders]
    [] OTHER -> [method |-> <<>>, body |-> <<>>, headers |-> NoHeaders]

HeaderNames == {"Content-Type", "X-API-Key", "X-Client", "X-Source"}

\* The headers fetch is given: the four of request(), then those of the
\* options over them
RequestHeaders(input, optionHeaders) ==
  [h \in HeaderNames \cup DOMAIN optionHeaders |->
     IF h \in DOMAIN optionHeaders THEN optionHeaders[h]
     ELSE CASE h = "Content-Type" -> <<"application/json">>
            [] h = "X-API-Key" -> input.apiKey.v
            [] h = "X-Client" -> <<"vx-mcp/">> \o VERSION.v
            [] OTHER -> ConfigSource(input).v]

\* fetch(url, { ...options, signal, headers }) of one attempt
Request(client, o, arg) ==
  LET options == RequestOptions(o, arg, client.input) IN
    [url |-> RequestUrl(client.apiUrl[1], Endpoint(o, arg)),
     method |-> options.method,
     body |-> options.body,
     headers |-> RequestHeaders(client.input, options.headers)]

\* What an attempt of operation o adds to the history of requests: the
\* request, where the constructor call and the argument are recorded
Outgoing(o, input) ==
  IF ctor = <<>> \/ input = <<>> THEN <<>>
  ELSE <<Request(ctor[1], o, input[1])>>

\* the same request without the method and the body of the options
WithoutOptions(reqs) ==
  [i \in DOMAIN reqs |-> [reqs[i] EXCEPT !.method = <<>>, !.body = <<>>]]

---------------------------------------------------------------------------
(* The request pipeline: VXClient.request *)

Init ==
  /\ \E input \in ConfigInputs : config = validateConfig(input)
  /\ pc = "idle"
  /\ op = "none"
  /\ attempt = 0
  /\ lastError = <<>>
  /\ response = <<>>
  /\ timer = FALSE
  /\ stale = {}
  /\ trace = <<>>
  /\ outcomes = <<>>
  /\ reqOutcome = Pending
  /\ opOutcome = Pending
  /\ opInput = <<>>
  /\ other = <<>>
  /\ ctor = <<>>
  /\ sent = <<>>
  /\ tool = <<>>

\* request() ends with ro and the operation o with what it makes of it
Finish(o, ro) ==
  /\ pc' = "done"
  /\ reqOutcome' = ro
  /\ \E latency \in 0..MaxLatency :
       opOutcome' = OperationOutcome(o, ro, latency)

\* loop whose timeout timer is set once, before the first attempt only
LoopTest_SingleTimer(o, att, tr, le, reqs, req) ==
  IF att <= config.maxRetries
    THEN /\ pc' = "fetch"
         /\ attempt' = att
         /\ timer' = (att = 0)
         /\ trace' = Append(tr, FetchEvent(att))
         /\ sent' = reqs \o req
         /\ reqOutcome' = Pending
         /\ opOutcome' = Pending
    ELSE /\ Finish(o, Raised(IF le # <<>> THEN le[1]
                             ELSE VXError2("Unknown error", "UNKNOWN")))
         /\ attempt' = att
         /\ timer' = FALSE
         /\ trace' = tr
         /\ sent' = reqs

\* The loop test `attempt <= maxRetries` for index att and, when it passes,
\* the start of the attempt: the timeout timer is set and fetch is called.
\* When it fails the loop is left and line 214 throws.
LoopTest(o, att, tr, le, reqs, req) ==
  IF att <= config.maxRetries
    THEN /\ pc' = "fetch"
         /\ attempt' = att
         /\ timer' = TRUE
         /\ trace' = Append(tr, FetchEvent(att))
         /\ sent' = reqs \o req
         /\ reqOutcome' = Pending
         /\ opOutcome' = Pending
    ELSE /\ Finish(o, Raised(IF le # <<>> THEN le[1]
                             ELSE VXError2("Unknown error", "UNKNOWN")))
         /\ attempt' = att
         /\ timer' = FALSE
         /\ trace' = tr
         /\ sent' = reqs

\* throw that raises the error stored by an earlier attempt, if there is one
Throw_StoredError(e, out) ==
  /\ Finish(op, Raised(IF lastError # <<>> THEN lastError[1] ELSE e))
  /\ outcomes' = Append(outcomes, out)
  /\ response' = <<>>
  /\ UNCHANGED <<attempt, lastError, trace>>

\* The attempt ends by throwing e out of request()
Throw(e, out) ==
  /\ Finish(op, Raised(e))
  /\ outcomes' = Append(outcomes, out)
  /\ response' = <<>>
  /\ UNCHANGED <<attempt, lastError, trace>>

\* The attempt ends by storing e and sleeping for the backoff delay
Backoff(e, out) ==
  /\ pc' = "sleep"
  /\ lastError' = <<e>>
  /\ trace' = Append(trace, SleepEvent(BackoffDelay(config, attempt)))
  /\ outcomes' = Append(outcomes, out)
  /\ response' = <<>>
  /\ UNCHANGED <<attempt, reqOutcome, opOutcome>>

\* A non-success response (lines 158-178)
HandleErrorStatus(status) ==
  LET code == mapStatusToErrorCode(status)
      retryable == isRetryable(status)
      error == VXError("VX API error", code, <<status>>, retryable)
      out == AttemptOutcome("http_error", <<status>>, <<>>)
  IN  IF ~retryable \/ attempt = config.maxRetries
        THEN Throw(error, out)
        ELSE Backoff(error, out)

\* catch block that rethrows a timeout or network error without retrying
HandleCaught_NoRetry(isTimeout, out) ==
  Throw(VXError(IF isTimeout THEN "Request timed out" ELSE "Network error",
                IF isTimeout THEN "TIMEOUT" ELSE "NETWORK_ERROR", <<>>, TRUE),
        out)

\* catch block that rethrows the caught error as it is on the last attempt
HandleCaught_Rethrows(isTimeout, out) ==
  LET code == IF isTimeout THEN "TIMEOUT" ELSE "NETWORK_ERROR"
      vxError == VXError(IF isTimeout THEN "Request timed out"
                         ELSE "Network error", code, <<>>, TRUE)
      caught == [name |-> IF isTimeout THEN "AbortError" ELSE "TypeError",
                 message |-> "fetch failed", code |-> "",
                 statusCode |-> <<>>, retryable |-> FALSE]
  IN  IF attempt = config.maxRetries
        THEN Throw(caught, out)
        ELSE Backoff(vxError, out)

\* catch block that takes every caught error for a timeout
HandleCaught_AlwaysTimeout(isTimeout, out) ==
  LET vxError == VXError("Request timed out", "TIMEOUT", <<>>, TRUE)
  IN  IF attempt = config.maxRetries
        THEN Throw(vxError, out)
        ELSE Backoff(vxError, out)

\* The catch block for an error that is no VXError (lines 190-210)
HandleCaught(isTimeout, out) ==
  LET code == IF isTimeout THEN "TIMEOUT" ELSE "NETWORK_ERROR"
      vxError == VXError(IF isTimeout THEN "Request timed out"
                         ELSE "Network error", code, <<>>, TRUE)
  IN  IF attempt = config.maxRetries
        THEN Throw(vxError, out)
        ELSE Backoff(vxError, out)

\* The attempt returns value from request()
Succeed(value, out) ==
  /\ Finish(op, Return(value))
  /\ outcomes' = Append(outcomes, out)
  /\ response' = <<>>
  /\ UNCHANGED <<attempt, lastError, trace>>

\* request() whose attempt index and stored error outlive the call
BeginOperation_KeepsLoopState(o, arg) ==
  /\ op' = o
  /\ response' = <<>>
  /\ outcomes' = <<>>
  /\ IF Validation(o, arg) # NoValidationError
       THEN /\ pc' = "done"
            /\ reqOutcome' = Pending
            /\ opOutcome' = Raised(VXError2(Validation(o, arg),
                                            "VALIDATION_ERROR"))
            /\ attempt' = 0
            /\ timer' = FALSE
            /\ trace' = <<>>
            /\ sent' = <<>>
       ELSE LoopTest(o, attempt, <<>>, lastError, <<>>, Outgoing(o, <<arg>>))
  /\ UNCHANGED <<config, ctor, lastError>>

\* Operation o is entered with argument arg.  The operation validates the
\* argument and throws, or calls request(), which starts its loop at attempt
\* 0 with no stored error.
BeginOperation(o, arg) ==
  /\ op' = o
  /\ lastError' = <<>>
  /\ response' = <<>>
  /\ outcomes' = <<>>
  /\ IF Validation(o, arg) # NoValidationError
       THEN /\ pc' = "done"
            /\ reqOutcome' = Pending
            /\ opOutcome' = Raised(VXError2(Validation(o, arg),
                                            "VALIDATION_ERROR"))
            /\ attempt' = 0
            /\ timer' = FALSE
            /\ trace' = <<>>
            /\ sent' = <<>>
       ELSE LoopTest(o, 0, <<>>, <<>>, <<>>, Outgoing(o, <<arg>>))
  /\ UNCHANGED <<config, ctor>>

\* A caller invokes operation o with argument arg on the new client
StartOperation(o, arg) ==
  /\ pc = "idle"
  /\ BeginOperation(o, arg)
  /\ UNCHANGED <<opInput, other, tool, stale>>

\* The same call, with the argument kept in the history
CallOperation(o, arg) ==
  /\ pc = "idle"
  /\ BeginOperation(o, arg)
  /\ opInput' = <<arg>>
  /\ UNCHANGED <<other, tool, stale>>

\* fetch resolves with a response of the given status; the timer is cleared
FetchResolves(status) ==
  /\ pc = "fetch"
  /\ pc' = "text"
  /\ response' = <<status>>
  /\ timer' = FALSE
  /\ UNCHANGED <<config, ctor, tool, sent, opInput, other, op, attempt, lastError, stale,
                 trace, outcomes, reqOutcome, opOutcome>>

\* fetch rejects with a network error; the timer of the attempt stays pending
FetchRejects ==
  /\ pc = "fetch"
  /\ HandleCaught(FALSE, AttemptOutcome("network_error", <<>>, <<>>))
  /\ timer' = FALSE
  /\ stale' = stale \cup {attempt}
  /\ UNCHANGED <<config, ctor, tool, sent, opInput, other, op>>

\* The timeout timer of the attempt in flight fires: controller.abort()
\* makes fetch reject with an AbortError
TimeoutFires ==
  /\ pc = "fetch"
  /\ timer
  /\ HandleCaught(TRUE, AttemptOutcome("timeout", <<>>, <<>>))
  /\ timer' = FALSE
  /\ UNCHANGED <<config, ctor, tool, sent, opInput, other, op, stale>>

\* body handling without the empty-body return: every success body is parsed
TextResolves_ParsesEmptyBody(body) ==
  /\ pc = "text"
  /\ LET status == response[1] IN
       IF ~ResponseOk(status)
         THEN HandleErrorStatus(status)
       ELSE IF JSONParse(body).ok
         THEN Succeed(JSONParse(body).value,
                      AttemptOutcome("success", <<status>>, <<body>>))
       ELSE HandleCaught(FALSE,
                         AttemptOutcome("parse_error", <<status>>, <<body>>))
  /\ UNCHANGED <<config, ctor, tool, sent, opInput, other, op, timer, stale>>

\* response.text() resolves with the body
TextResolves(body) ==
  /\ pc = "text"
  /\ LET status == response[1] IN
       IF ~ResponseOk(status)
         THEN HandleErrorStatus(status)
       ELSE IF body = ""
         THEN Succeed("{}", AttemptOutcome("success", <<status>>, <<body>>))
       ELSE IF JSONParse(body).ok
         THEN Succeed(JSONParse(body).value,
                      AttemptOutcome("success", <<status>>, <<body>>))
       ELSE HandleCaught(FALSE,
                         AttemptOutcome("parse_error", <<status>>, <<body>>))
  /\ UNCHANGED <<config, ctor, tool, sent, opInput, other, op, timer, stale>>

\* response.text() rejects: the body stream failed.  For a non-success
\* response the rejection is replaced by the text 'Unknown error'.
TextRejects ==
  /\ pc = "text"
  /\ LET status == response[1] IN
       IF ~ResponseOk(status)
         THEN HandleErrorStatus(status)
         ELSE HandleCaught(FALSE,
                           AttemptOutcome("body_error", <<status>>, <<>>))
  /\ UNCHANGED <<config, ctor, tool, sent, opInput, other, op, timer, stale>>

\* loop step that advances the index by two
SleepElapses_SkipsIndex ==
  /\ pc = "sleep"
  /\ LoopTest(op, attempt + 2, trace, lastError, sent, Outgoing(op, opInput))
  /\ UNCHANGED <<config, ctor, tool, opInput, other, op, lastError, response, stale,
                 outcomes>>

\* retry that passes fetch the URL and the headers but not the options
SleepElapses_DropsOptions ==
  /\ pc = "sleep"
  /\ LoopTest(op, attempt + 1, trace, lastError, sent,
              WithoutOptions(Outgoing(op, opInput)))
  /\ UNCHANGED <<config, ctor, tool, opInput, other, op, lastError, response, stale,
                 outcomes>>

\* The backoff sleep ends: attempt++ and the loop test
SleepElapses ==
  /\ pc = "sleep"
  /\ LoopTest(op, attempt + 1, trace, lastError, sent, Outgoing(op, opInput))
  /\ UNCHANGED <<config, ctor, tool, opInput, other, op, lastError, response, stale,
                 outcomes>>

\* stale timer whose abort reaches the attempt in flight
StaleTimerFires_AbortsCurrent(att) ==
  /\ att \in stale
  /\ stale' = stale \ {att}
  /\ IF pc = "fetch"
       THEN /\ HandleCaught(TRUE, AttemptOutcome("timeout", <<>>, <<>>))
            /\ timer' = FALSE
       ELSE UNCHANGED <<pc, attempt, lastError, response, timer, trace,
                        outcomes, reqOutcome, opOutcome>>
  /\ UNCHANGED <<config, ctor, tool, sent, opInput, other, op>>

\* A timer left pending by an attempt that ended in a network error fires:
\* it aborts the controller of that finished attempt, which nothing awaits
StaleTimerFires(att) ==
  /\ att \in stale
  /\ stale' = stale \ {att}
  /\ UNCHANGED <<config, ctor, tool, sent, opInput, other, pc, op, attempt, lastError,
                 response, timer, trace, outcomes, reqOutcome, opOutcome>>

Next ==
  \/ \E o \in Operations : \E arg \in Inputs(o) : StartOperation(o, arg)
  \/ \E status \in Statuses : FetchResolves(status)
  \/ FetchRejects
  \/ TimeoutFires
  \/ \E body \in Bodies : TextResolves(body)
  \/ TextRejects
  \/ SleepElapses
  \/ \E att \in stale : StaleTimerFires(att)

Spec == Init /\ [][Next]_vars

\* The operation layer: the same client and pipeline, started with a
\* configuration of at most one retry, and with the argument of the
\* operation kept in the history.
OpInit ==
  /\ Init
  /\ config.maxRetries <= 1
  /\ config.retryDelay = DefaultRetryDelay

OpNext ==
  \/ \E o \in Operations : \E arg \in Inputs(o) : CallOperation(o, arg)
  \/ \E status \in Statuses : FetchResolves(status)
  \/ FetchRejects
  \/ TimeoutFires
  \/ \E body \in Bodies : TextResolves(body)
  \/ TextRejects
  \/ SleepElapses
  \/ \E att \in stale : StaleTimerFires(att)

OpSpec == OpInit /\ [][OpNext]_vars

\* no client exists: this.config of a client that was not constructed
NoConfig == <<>>

\* The construction layer starts before `new VXClient(input)`.
CtorInit ==
  /\ pc = "new"
  /\ config = NoConfig
  /\ ctor = <<>>
  /\ op = "none"
  /\ attempt = 0
  /\ lastError = <<>>
  /\ response = <<>>
  /\ timer = FALSE
  /\ stale = {}
  /\ trace = <<>>
  /\ outcomes = <<>>
  /\ reqOutcome = Pending
  /\ opOutcome = Pending
  /\ opInput = <<>>
  /\ other = <<>>
  /\ sent = <<>>
  /\ tool = <<>>

\* new VXClient(input): validateConfig throws, or its result becomes
\* this.config, with the trailing slash of apiUrl removed
Construct(input) ==
  /\ pc = "new"
  /\ IF ConfigValidation(input) # NoValidationError
       THEN /\ pc' = "failed"
            /\ config' = NoConfig
            /\ ctor' = <<[input |-> input,
                          outcome |-> Raised(VXError2(ConfigValidation(input),
                                                      "VALIDATION_ERROR")),
                          apiUrl |-> <<>>]>>
       ELSE /\ pc' = "idle"
            /\ config' = validateConfig(input)
            /\ ctor' = <<[input |-> input,
                          outcome |-> Return("VXClient"),
                          apiUrl |-> <<StripTrailingSlash(input.apiUrl.v)>>]>>
  /\ UNCHANGED <<op, attempt, lastError, response, timer, stale, trace,
                 outcomes, reqOutcome, opOutcome, opInput, other, sent,
                 tool>>

CtorNext ==
  \/ \E input \in CtorInputs : Construct(input)
  \/ \E o \in Operations : \E arg \in Inputs(o) : CallOperation(o, arg)
  \/ \E status \in Statuses : FetchResolves(status)
  \/ FetchRejects
  \/ TimeoutFires
  \/ \E body \in Bodies : TextResolves(body)
  \/ TextRejects
  \/ SleepElapses
  \/ \E att \in stale : StaleTimerFires(att)

CtorSpec == CtorInit /\ [][CtorNext]_vars

\* The request layer: clients constructed with a base URL and a key, and
\* operations called with every optional field absent, empty or zero, or set.
WireConfigs ==
  [apiUrl : {Str(<<"https", ":", "/", "/", "a.io">>),
             Str(<<"http", ":", "/", "/", "a.io", "/", "api", "/">>)},
   apiKey : {Str(<<"k">>)},
   maxRetries : {<<1>>},
   retryDelay : {<<>>},
   source : {Undefined, Str(<<"cursor">>)}]

WireInputs(o) ==
  CASE o = "store" ->
         [content : {Str(<<"a">>), Str(<<>>)},
          context : {Undefined, Str(<<"w">>)},
          memoryType : {Undefined, Str(<<>>), Str(<<"EPISODIC">>)},
          importance : {NoImportance, Importance(0), Importance(5),
                        NotANumber}]
    [] o = "update" ->
         [id : {Str(<<"m", "1">>)}, fields : SUBSET UpdateFields,
          importance : {NoImportance, Importance(0), Importance(10),
                        NotANumber}]
    [] o = "query" ->
         [query : {Str(<<"q">>)},
          limit : {Undefined, Num(<<"0">>), Num(<<"5">>)},
          context : {Undefined, Str(<<"w">>)},
          memoryType : {Undefined, Str(<<"EPISODIC">>)}]
    [] o = "list" ->
         [limit : {Undefined, Num(<<"0">>), Num(<<"5">>)},
          offset : {Undefined, Num(<<"0">>), Num(<<"5">>)},
          context : {Undefined, Str(<<>>), Str(<<"w", " ", "x">>)},
          memoryType : {Undefined, Str(<<"EPISODIC">>)}]
    [] o = "delete" -> [id : {Undefined, Str(<<"m", "1">>)}]
    [] o = "getContextPacket" ->
         [topic : {Str(<<"t">>)},
          maxTokens : {Undefined, Num(<<"0">>), Num(<<"100">>)}]
    [] OTHER -> {[none |-> TRUE]}

WireNext ==
  \/ \E input \in WireConfigs : Construct(input)
  \/ \E o \in Operations : \E arg \in WireInputs(o) : CallOperation(o, arg)
  \/ \E status \in Statuses : FetchResolves(status)
  \/ FetchRejects
  \/ TimeoutFires
  \/ \E body \in Bodies : TextResolves(body)
  \/ TextRejects
  \/ SleepElapses
  \/ \E att \in stale : StaleTimerFires(att)

WireSpec == CtorInit /\ [][WireNext]_vars

---------------------------------------------------------------------------
(* The tool-call handler of the server (index.ts) *)

ToolNames == {"vx_store", "vx_update", "vx_query", "vx_list", "vx_delete",
              "vx_context"}

\* the client operation behind each tool
ToolOperation(name) ==
  CASE name = "vx_store" -> "store"
    [] name = "vx_update" -> "update"
    [] name = "vx_query" -> "query"
    [] name = "vx_list" -> "list"
    [] name = "vx_delete" -> "delete"
    [] OTHER -> "getContextPacket"

\* the first property each handleVx function reads of its argument
FirstProperty(name) ==
  CASE name = "vx_store" -> "content"
    [] name = "vx_query" -> "query"
    [] name = "vx_list" -> "limit"
    [] name = "vx_context" -> "topic"
    [] OTHER -> "id"

\* the character U+2713 that opens the texts of store, update and delete
CheckMark == "U+2713"

\* process.env.VX_NAME || 'VX' in an environment that does not set it
VX_NAME == "VX"

\* an Error that is not a VXError; its message is given in pieces
JsError(name, message) == [name |-> name, message |-> message]

\* `${value.f}` for the values request() returns in the model
Property(value, f) ==
  IF value = "Object(id=m1)" /\ f = "id" THEN "m1" ELSE "undefined"

\* how a handleVx function ends: with its text or by throwing
Text(tokens) == [kind |-> "text", text |-> tokens, error |-> <<>>]
Thrown(e) == [kind |-> "throw", text |-> <<>>, error |-> <<e>>]

\* What the handleVx function of the tool makes of the outcome of its client
\* operation: the error goes through, a result is formatted.
HandlerResult(name, args, outcome) ==
  IF outcome.kind = "error" THEN Thrown(outcome.error[1])
  ELSE CASE name = "vx_store" ->
              Text(<<CheckMark, " Memory stored by ", VX_NAME, " (ID: ",
                     Property(outcome.value, "id"), ", type: ",
                     Property(outcome.value, "memoryType"), ")">>)
         [] name = "vx_update" ->
              Text(<<CheckMark, " Memory updated (ID: ",
                     Property(outcome.value, "id"), ")">>)
         [] name \in {"vx_query", "vx_list"} ->
              IF Property(outcome.value, "memories") = "undefined"
                THEN Thrown(JsError("TypeError",
                       <<"Cannot read properties of undefined (reading '",
                         "length", "')">>))
              ELSE Text(<<"memories">>)
         [] name = "vx_delete" ->
              Text(<<CheckMark, " Memory deleted successfully (ID: ">>
                     \o args.id.v \o <<")">>)
         [] OTHER ->
              IF Property(outcome.value, "context") = "undefined"
                THEN Text(<<"No relevant context found for this topic.">>)
              ELSE Text(<<"context">>)

RetryNote == " (this error may be temporary, please try again)"

\* handler whose catch block handles a VXError and throws every other error
\* again
ToolResponse_CatchesVXErrorOnly(result) ==
  IF result.kind = "text"
    THEN [state |-> "returned",
          response |-> <<[content |-> <<[type |-> "text",
                                         text |-> result.text]>>,
                          isError |-> <<>>]>>]
  ELSE LET error == result.error[1] IN
    IF error.name # "VXError"
      THEN [state |-> "thrown", response |-> <<>>]
    ELSE [state |-> "returned",
          response |-> <<[content |-> <<[type |-> "text",
                            text |-> <<"Error: ", error.code, ": ",
                                       error.message>>
                                     \o (IF error.retryable
                                           THEN <<RetryNote>> ELSE <<>>)]>>,
                          isError |-> <<TRUE>>]>>]

\* The end of the handler: the return after the switch, or the catch block
ToolResponse(result) ==
  IF result.kind = "text"
    THEN [state |-> "returned",
          response |-> <<[content |-> <<[type |-> "text",
                                         text |-> result.text]>>,
                          isError |-> <<>>]>>]
  ELSE LET error == result.error[1]
           message ==
             IF error.name = "VXError"
               THEN <<error.code, ": ", error.message>>
                      \o (IF error.retryable THEN <<RetryNote>> ELSE <<>>)
             ELSE error.message
       IN [state |-> "returned",
           response |-> <<[content |-> <<[type |-> "text",
                                          text |-> <<"Error: ">> \o message]>>,
                           isError |-> <<TRUE>>]>>]

\* arguments that reach the client operation of a tool: for each operation
\* one that its validation refuses and those it accepts
ToolInputs(o) ==
  CASE o = "store" ->
         [content : {Str(<<>>), Str(<<"a">>)},
          importance : {NoImportance, Importance(5)}]
    [] o = "update" ->
         [id : {Str(<<"m", "1">>)}, fields : {{}, {"content"}},
          importance : {NoImportance}]
    [] o = "query" -> [query : {Undefined, Str(<<"m", "1">>)}]
    [] o = "delete" -> [id : {Undefined, Str(<<"m", "1">>)}]
    [] o = "getContextPacket" -> [topic : {Undefined, Str(<<"m", "1">>)}]
    [] OTHER -> {[none |-> TRUE]}

\* the arguments of a tool call: absent, or an object
ToolArgs(name) ==
  IF name \in ToolNames
    THEN {Undefined} \cup ToolInputs(ToolOperation(name))
    ELSE {Undefined}

\* names a caller asks for: the six tools and one that does not exist
CalledNames == ToolNames \cup {"vx_forget"}

ToolCall(name, args, end) ==
  [name |-> name, args |-> args, state |-> end.state,
   response |-> end.response]

Awaiting == [state |-> "awaiting", response |-> <<>>]

\* The handler is called with request.params = { name, arguments: args }.
\* It runs up to the first await of the client operation, or to its end when
\* no client operation is called.
CallTool(name, args) ==
  /\ pc = "idle"
  /\ tool = <<>>
  /\ IF name \notin ToolNames
       THEN /\ tool' = <<ToolCall(name, args, ToolResponse(Thrown(
                           JsError("Error", <<"Unknown tool: ", name>>))))>>
            /\ UNCHANGED <<pc, op, attempt, lastError, response, timer, stale,
                           trace, outcomes, reqOutcome, opOutcome, opInput,
                           sent>>
     ELSE IF args = Undefined /\ name # "vx_list"
       THEN /\ tool' = <<ToolCall(name, args, ToolResponse(Thrown(
                           JsError("TypeError",
                             <<"Cannot read properties of undefined (reading '",
                               FirstProperty(name), "')">>))))>>
            /\ UNCHANGED <<pc, op, attempt, lastError, response, timer, stale,
                           trace, outcomes, reqOutcome, opOutcome, opInput,
                           sent>>
     ELSE LET arg == IF args = Undefined THEN [none |-> TRUE] ELSE args IN
            /\ BeginOperation(ToolOperation(name), arg)
            /\ opInput' = <<arg>>
            /\ tool' = <<ToolCall(name, args, Awaiting)>>
            /\ UNCHANGED stale
  /\ UNCHANGED <<config, ctor, other>>

\* The client operation has ended: the handleVx function returns or throws
\* and the handler returns its response.
ToolReturns ==
  /\ tool # <<>>
  /\ tool[1].state = "awaiting"
  /\ pc = "done"
  /\ tool' = <<ToolCall(tool[1].name, tool[1].args,
                        ToolResponse(HandlerResult(tool[1].name, tool[1].args,
                                                   opOutcome)))>>
  /\ UNCHANGED <<config, pc, op, attempt, lastError, response, timer, stale,
                 trace, outcomes, reqOutcome, opOutcome, opInput, other, ctor,
                 sent>>

ToolNext ==
  \/ \E name \in CalledNames : \E args \in ToolArgs(name) : CallTool(name, args)
  \/ ToolReturns
  \/ \E status \in Statuses : FetchResolves(status)
  \/ FetchRejects
  \/ TimeoutFires
  \/ \E body \in Bodies : TextResolves(body)
  \/ TextRejects
  \/ SleepElapses
  \/ \E att \in stale : StaleTimerFires(att)

\* The configuration createClientFromEnv() passes to the constructor: it
\* sets neither maxRetries nor retryDelay
EnvConfig == [maxRetries |-> <<>>, retryDelay |-> <<>>]

\* The server starts with the client made by createClientFromEnv()
ToolInit ==
  /\ Init
  /\ config = validateConfig(EnvConfig)

ToolSpec == ToolInit /\ [][ToolNext]_vars

\* What one call of an operation owns: the arguments and locals of the
\* operation and of its request() (attempt, lastError, the response, the
\* timeout timer of the attempt, the timers its ended attempts left pending)
\* and where it is suspended.
Locals ==
  [pc |-> pc, op |-> op, opInput |-> opInput, attempt |-> attempt,
   lastError |-> lastError, response |-> response, timer |-> timer,
   stale |-> stale, trace |-> trace, outcomes |-> outcomes,
   reqOutcome |-> reqOutcome, opOutcome |-> opOutcome]

\* the operations called when two calls are made on one client
MultiOperations == {"list", "delete"}

\* A second call of an operation on the same client, made while the first
\* call is suspended in an await or after it has ended.  The first call keeps
\* its locals; the second call runs up to its first await.
SecondCall(o, arg) ==
  /\ pc # "idle"
  /\ other = <<>>
  /\ other' = <<[call |-> Locals, overlap |-> pc # "done"]>>
  /\ BeginOperation(o, arg)
  /\ opInput' = <<arg>>
  /\ stale' = {}
  /\ UNCHANGED tool

\* event loop in which the calls share the attempt index
Resume_SharedAttempt ==
  /\ other # <<>>
  /\ other[1].call.pc # "done"
  /\ other' = <<[call |-> Locals, overlap |-> other[1].overlap]>>
  /\ LET c == other[1].call IN
       /\ pc' = c.pc
       /\ op' = c.op
       /\ opInput' = c.opInput
       /\ lastError' = c.lastError
       /\ response' = c.response
       /\ timer' = c.timer
       /\ stale' = c.stale
       /\ trace' = c.trace
       /\ outcomes' = c.outcomes
       /\ reqOutcome' = c.reqOutcome
       /\ opOutcome' = c.opOutcome
  /\ UNCHANGED <<config, ctor, tool, sent, attempt>>

\* The event loop turns to the other call, which is suspended in an await:
\* the call that was running stays where it is with its locals, and the
\* steps that follow are those of the other call.
Resume ==
  /\ other # <<>>
  /\ other[1].call.pc # "done"
  /\ other' = <<[call |-> Locals, overlap |-> other[1].overlap]>>
  /\ LET c == other[1].call IN
       /\ pc' = c.pc
       /\ op' = c.op
       /\ opInput' = c.opInput
       /\ attempt' = c.attempt
       /\ lastError' = c.lastError
       /\ response' = c.response
       /\ timer' = c.timer
       /\ stale' = c.stale
       /\ trace' = c.trace
       /\ outcomes' = c.outcomes
       /\ reqOutcome' = c.reqOutcome
       /\ opOutcome' = c.opOutcome
  /\ UNCHANGED <<config, ctor, tool, sent>>

\* the timers left pending by the attempts of the call that is not running
OtherStale == IF other = <<>> THEN {} ELSE other[1].call.stale

\* A timer left pending by an attempt of the call that is not running
\* fires: it aborts the controller of that finished attempt
OtherStaleTimerFires(att) ==
  /\ att \in OtherStale
  /\ other' = <<[other[1] EXCEPT !.call.stale = @ \ {att}]>>
  /\ UNCHANGED <<config, ctor, tool, sent, opInput, pc, op, attempt,
                 lastError, response, timer, stale, trace, outcomes,
                 reqOutcome, opOutcome>>

\* Two calls on one client, one after the other or interleaved
MultiNext ==
  \/ \E o \in MultiOperations : \E arg \in Inputs(o) : CallOperation(o, arg)
  \/ \E o \in MultiOperations : \E arg \in Inputs(o) : SecondCall(o, arg)
  \/ Resume
  \/ \E status \in Statuses : FetchResolves(status)
  \/ FetchRejects
  \/ TimeoutFires
  \/ \E body \in Bodies : TextResolves(body)
  \/ TextRejects
  \/ SleepElapses
  \/ \E att \in stale : StaleTimerFires(att)
  \/ \E att \in OtherStale : OtherStaleTimerFires(att)

MultiSpec == OpInit /\ [][MultiNext]_vars

\* The transport call of the attempt in flight settles: fetch resolves with
\* a response, rejects, or is aborted by the timeout timer.
FetchSettles ==
  \/ \E status \in Statuses : FetchResolves(status)
  \/ FetchRejects
  \/ TimeoutFires

\* The pipeline under an environment in which every fetch call settles and
\* every backoff timer elapses.  Nothing is assumed of the body stream of a
\* response: reading it is not covered by the timeout timer.
FairSpec == Spec /\ WF_vars(FetchSettles) /\ WF_vars(SleepElapses)

---------------------------------------------------------------------------
(* Vocabulary of the properties *)

\* the fetch calls and the backoff sleeps of the operation, in order
Fetches == SelectSeq(trace, LAMBDA e : e.ev = "fetch")
Sleeps == SelectSeq(trace, LAMBDA e : e.ev = "sleep")

\* request() was called and has ended
RequestEnded == pc = "done" /\ reqOutcome.kind # "pending"

\* request() has ended by throwing
RequestFailed == pc = "done" /\ reqOutcome.kind = "error"

\* the operations that hand the outcome of request() to their caller
PropagatingOperations == Operations \ {"healthCheck"}

IsStatus(out, status) == out.kind = "http_error" /\ out.status = <<status>>

\* fetch, sleep retryDelay * 2^0, fetch, sleep retryDelay * 2^1, ..., fetch:
\* the calls of an operation that makes n attempts
ExpectedTrace(n) ==
  [j \in 1..(2 * n - 1) |->
     IF j % 2 = 1 THEN FetchEvent((j - 1) \div 2)
     ELSE SleepEvent(config.retryDelay * 2 ^ ((j \div 2) - 1))]

---------------------------------------------------------------------------
(* Properties *)

\* C1: with maxRetries >= 0 and a transport that answers every attempt with
\* HTTP 429, the operation makes exactly maxRetries+1 attempts and then
\* raises RATE_LIMITED.
C1_RateLimitedExhaustsRetries ==
  (/\ RequestEnded
   /\ config.maxRetries >= 0
   /\ \A i \in DOMAIN outcomes : IsStatus(outcomes[i], 429))
  => /\ Len(Fetches) = config.maxRetries + 1
     /\ Len(outcomes) = config.maxRetries + 1
     /\ reqOutcome.kind = "error"
     /\ reqOutcome.error[1].code = "RATE_LIMITED"
     /\ (op \in PropagatingOperations => opOutcome = reqOutcome)

C1_Witness ==
  /\ RequestEnded
  /\ config.maxRetries = 2
  /\ Len(outcomes) = 3
  /\ \A i \in DOMAIN outcomes : IsStatus(outcomes[i], 429)
  /\ reqOutcome.kind = "error"
  /\ reqOutcome.error[1].code = "RATE_LIMITED"

\* the statuses that C2 names, with the error code each is mapped to
FatalStatusCode(status) ==
  CASE status \in {401, 403} -> "UNAUTHORIZED"
    [] status = 404 -> "NOT_FOUND"
    [] status \in {400, 422} -> "VALIDATION_ERROR"
    [] OTHER -> "none"

\* C2: an attempt at any index that receives 401, 403, 404, 400 or 422 is the
\* last one: the mapped error is raised straight after it, with no further
\* attempt and no backoff wait; a first attempt answered 401 gives one
\* attempt and UNAUTHORIZED.
C2_FatalStatusRaisedAtOnce ==
  \A i \in DOMAIN outcomes :
    (outcomes[i].kind = "http_error"
       /\ FatalStatusCode(outcomes[i].status[1]) # "none")
    => /\ i = Len(outcomes)
       /\ pc = "done"
       /\ reqOutcome.kind = "error"
       /\ reqOutcome.error[1].code = FatalStatusCode(outcomes[i].status[1])
       /\ reqOutcome.error[1].statusCode = outcomes[i].status
       /\ Len(Fetches) = i
       /\ Len(Sleeps) = i - 1
       /\ trace[Len(trace)].ev = "fetch"
       /\ (op \in PropagatingOperations => opOutcome = reqOutcome)
       /\ (IsStatus(outcomes[1], 401)
             => Len(Fetches) = 1
                /\ reqOutcome.error[1].code = "UNAUTHORIZED")

C2_Witness ==
  /\ pc = "done"
  /\ Len(outcomes) = 3
  /\ IsStatus(outcomes[1], 503)
  /\ outcomes[2].kind = "timeout"
  /\ IsStatus(outcomes[3], 404)
  /\ reqOutcome.kind = "error"
  /\ reqOutcome.error[1].code = "NOT_FOUND"
  /\ config.maxRetries = 3

\* C3: for 1 <= N <= maxRetries+1, when the transport answers 500 on attempts
\* 0..N-2 and 200 (with an empty or a JSON body) on attempt N-1, the
\* operation returns the parsed body, fetch was called exactly N times, and
\* the wait before attempt i+1 was retryDelay * 2^i for each i in 0..N-2.
C3_SucceedsAfterServerErrors ==
  \A N \in 1..(config.maxRetries + 1) :
    (/\ Len(outcomes) >= N
     /\ \A i \in 1..(N - 1) : IsStatus(outcomes[i], 500)
     /\ outcomes[N].status = <<200>>
     /\ outcomes[N].body \in {<<"">>, <<"{\"id\":\"m1\"}">>})
    => /\ Len(outcomes) = N
       /\ outcomes[N].kind = "success"
       /\ pc = "done"
       /\ reqOutcome.kind = "result"
       /\ reqOutcome.value = (IF outcomes[N].body = <<"">> THEN "{}"
                              ELSE "Object(id=m1)")
       /\ Len(Fetches) = N
       /\ trace = ExpectedTrace(N)
       /\ (op \in PropagatingOperations \ {"delete"}
             => opOutcome = reqOutcome)

C3_Witness ==
  /\ pc = "done"
  /\ config.maxRetries = 2
  /\ config.retryDelay = 1
  /\ Len(outcomes) = 3
  /\ IsStatus(outcomes[1], 500)
  /\ IsStatus(outcomes[2], 500)
  /\ outcomes[3] = AttemptOutcome("success", <<200>>, <<"{\"id\":\"m1\"}">>)
  /\ reqOutcome = Return("Object(id=m1)")
  /\ Sleeps = <<SleepEvent(1), SleepEvent(2)>>

\* C4: when the timeout timer fires before any response on every attempt, the
\* operation makes exactly maxRetries+1 attempts and then raises TIMEOUT with
\* retryable = true.
C4_TimeoutExhaustsRetries ==
  (/\ RequestEnded
   /\ outcomes # <<>>
   /\ \A i \in DOMAIN outcomes : outcomes[i].kind = "timeout")
  => /\ Len(Fetches) = config.maxRetries + 1
     /\ Len(outcomes) = config.maxRetries + 1
     /\ reqOutcome.kind = "error"
     /\ reqOutcome.error[1].code = "TIMEOUT"
     /\ reqOutcome.error[1].retryable = TRUE
     /\ (op \in PropagatingOperations => opOutcome = reqOutcome)

C4_Witness ==
  /\ RequestEnded
  /\ config.maxRetries = 3
  /\ Len(outcomes) = 4
  /\ \A i \in DOMAIN outcomes : outcomes[i].kind = "timeout"
  /\ reqOutcome.kind = "error"
  /\ reqOutcome.error[1].code = "TIMEOUT"
  /\ reqOutcome.error[1].retryable = TRUE

\* the error made by the attempt that finished last, when it failed: the one
\* thrown if request() has ended, else the one stored in lastError
LastAttemptError ==
  IF pc = "done" THEN reqOutcome.error[1] ELSE lastError[1]

\* the status table of the specification
TableCode(status) ==
  CASE status \in {401, 403} -> "UNAUTHORIZED"
    [] status = 404 -> "NOT_FOUND"
    [] status \in {400, 422} -> "VALIDATION_ERROR"
    [] status = 429 -> "RATE_LIMITED"
    [] status \in {500, 502, 503, 504} -> "SERVER_ERROR"
    [] OTHER -> "UNKNOWN"

TableStatuses == {400, 401, 403, 404, 422, 429, 500, 502, 503, 504}

\* C5: a non-success status is classified by the table 401/403 UNAUTHORIZED,
\* 404 NOT_FOUND, 400/422 VALIDATION_ERROR, 429 RATE_LIMITED, 500/502/503/504
\* SERVER_ERROR, any other status UNKNOWN; and for a status outside the table
\* the UNKNOWN error is not retryable and is raised after that one attempt.
C5_StatusTableUnknownIsFatal ==
  (outcomes # <<>> /\ outcomes[Len(outcomes)].kind = "http_error")
  => LET status == outcomes[Len(outcomes)].status[1] IN
       /\ LastAttemptError.code = TableCode(status)
       /\ status \notin TableStatuses
            => /\ pc = "done"
               /\ reqOutcome.kind = "error"
               /\ LastAttemptError.code = "UNKNOWN"
               /\ LastAttemptError.retryable = FALSE

RetryableCodes == {"RATE_LIMITED", "SERVER_ERROR", "TIMEOUT", "NETWORK_ERROR"}

\* C6: every error an operation raises has retryable = true exactly when its
\* code is RATE_LIMITED, SERVER_ERROR, TIMEOUT or NETWORK_ERROR.
C6_RetryableFixedByCode ==
  (pc = "done" /\ opOutcome.kind = "error")
  => (opOutcome.error[1].retryable
        <=> opOutcome.error[1].code \in RetryableCodes)

\* C7: a success response whose non-empty body cannot be parsed ends the
\* operation with a non-retryable error that is neither NETWORK_ERROR nor
\* TIMEOUT, raised after that attempt even when attempts remain.
C7_ParseFailureIsFatal ==
  \A i \in DOMAIN outcomes :
    outcomes[i].kind = "parse_error"
    => /\ i = Len(outcomes)
       /\ pc = "done"
       /\ reqOutcome.kind = "error"
       /\ reqOutcome.error[1].retryable = FALSE
       /\ reqOutcome.error[1].code \notin {"NETWORK_ERROR", "TIMEOUT"}

\* C8: a success response with an empty body ends the operation at that
\* attempt with the empty result and no error, the body is not parsed; delete
\* resolves.
C8_EmptyBodyResolves ==
  \A i \in DOMAIN outcomes :
    (/\ outcomes[i].status # <<>>
     /\ ResponseOk(outcomes[i].status[1])
     /\ outcomes[i].body = <<"">>)
    => /\ i = Len(outcomes)
       /\ outcomes[i].kind = "success"
       /\ pc = "done"
       /\ reqOutcome = Return("{}")
       /\ Len(Fetches) = i
       /\ (op = "delete" => opOutcome = Return("undefined"))
       /\ (op \in PropagatingOperations \ {"delete"}
             => opOutcome = Return("{}"))

C8_Witness ==
  /\ pc = "done"
  /\ op = "delete"
  /\ Len(outcomes) = 2
  /\ outcomes[1].kind = "network_error"
  /\ outcomes[2] = AttemptOutcome("success", <<200>>, <<"">>)
  /\ reqOutcome = Return("{}")
  /\ opOutcome = Return("undefined")

\* C9: under any transport behaviour fetch is called at most maxRetries+1
\* times in an operation, and the attempts carry the indices 0, 1, 2, ...
\* in order, none skipped or repeated.
C9_AttemptsBoundedAndConsecutive ==
  /\ Len(Fetches) <= config.maxRetries + 1
  /\ \A i \in DOMAIN Fetches : Fetches[i].n = i - 1
  /\ pc \in {"fetch", "text", "sleep"} => attempt = Len(Fetches) - 1

C9_Witness ==
  /\ pc = "done"
  /\ config.maxRetries = 3
  /\ Len(Fetches) = 4
  /\ outcomes[1].kind = "network_error"
  /\ outcomes[2].kind = "timeout"
  /\ IsStatus(outcomes[3], 503)
  /\ outcomes[4].kind = "parse_error"

\* the failures the specification calls retryable
RetryableFailure(out) ==
  \/ out.kind \in {"network_error", "timeout"}
  \/ out.kind = "http_error" /\ out.status[1] \in {429, 500, 502, 503, 504}

\* C10: after a retryable failure (status, network error or timeout) of
\* attempt i < maxRetries the operation sleeps exactly retryDelay * 2^i and
\* then makes attempt i+1; with the defaults (maxRetries 3, retryDelay 1000)
\* an operation whose attempts all fail retryably sleeps 1000, 2000 and 4000
\* between its four attempts.
C10_BackoffIsExponential ==
  /\ \A k \in DOMAIN outcomes :
       (RetryableFailure(outcomes[k]) /\ k - 1 < config.maxRetries)
       => /\ Len(trace) >= 2 * k
          /\ trace[2 * k - 1] = FetchEvent(k - 1)
          /\ trace[2 * k] = SleepEvent(config.retryDelay * 2 ^ (k - 1))
          /\ Len(trace) > 2 * k => trace[2 * k + 1] = FetchEvent(k)
          /\ Len(trace) = 2 * k => pc = "sleep"
  /\ (/\ RequestEnded
      /\ config = [maxRetries |-> 3, retryDelay |-> 1000]
      /\ \A k \in DOMAIN outcomes : RetryableFailure(outcomes[k]))
     => /\ Len(Fetches) = 4
        /\ Sleeps = <<SleepEvent(1000), SleepEvent(2000), SleepEvent(4000)>>

C10_Witness ==
  /\ RequestEnded
  /\ config = [maxRetries |-> 3, retryDelay |-> 1000]
  /\ IsStatus(outcomes[1], 429)
  /\ outcomes[2].kind = "network_error"
  /\ outcomes[3].kind = "timeout"
  /\ IsStatus(outcomes[4], 500)
  /\ Sleeps = <<SleepEvent(1000), SleepEvent(2000), SleepEvent(4000)>>

\* C11: for every client the constructor accepts and every transport
\* behaviour, the throw after the retry loop is never reached: request() ends
\* inside the loop, straight after the attempt that returned or failed, with
\* the result or with the error of that attempt.
C11_FallbackUnreachable ==
  RequestEnded
  => /\ trace # <<>>
     /\ trace[Len(trace)].ev = "fetch"
     /\ Len(outcomes) = Len(Fetches)
     /\ reqOutcome.kind = "error"
          => /\ outcomes[Len(outcomes)].kind # "success"
             /\ reqOutcome.error[1].message # "Unknown error"

\* a text with no character other than whitespace (the empty text included)
Blank(chars) == \A i \in DOMAIN chars : chars[i] \in Whitespace

NonEmptyString(x) == x.t = "string" /\ x.v # <<>>

\* an importance that is supplied and is a number in [0,1]
InUnitInterval(imp) ==
  imp.t = "number" /\ ~imp.nan /\ imp.n >= 0 /\ imp.n <= 10

\* an importance that is supplied and is a number outside [0,1]
OutOfRange(imp) == imp.t = "number" /\ ~InUnitInterval(imp)

\* the constraints of section 4.1: arg violates those of operation o
ViolatesConstraints(o, arg) ==
  CASE o = "store" ->
         \/ arg.content.t # "string"
         \/ Blank(arg.content.v)
         \/ OutOfRange(arg.importance)
         \/ arg.importance.t \notin {"undefined", "number"}
    [] o = "update" ->
         \/ ~NonEmptyString(arg.id)
         \/ OutOfRange(arg.importance)
         \/ (arg.fields = {} /\ arg.importance.t = "undefined")
    [] o = "query" -> ~NonEmptyString(arg.query)
    [] o = "delete" -> ~NonEmptyString(arg.id)
    [] o = "getContextPacket" -> ~NonEmptyString(arg.topic)
    [] OTHER -> FALSE

\* C12: an argument that violates the constraints of store, update, query,
\* delete or getContextPacket makes the operation raise VALIDATION_ERROR with
\* retryable = false, and fetch is not called during that call.
C12_InvalidInputRejectedOffline ==
  (opInput # <<>> /\ ViolatesConstraints(op, opInput[1]))
  => /\ pc = "done"
     /\ opOutcome.kind = "error"
     /\ opOutcome.error[1].name = "VXError"
     /\ opOutcome.error[1].code = "VALIDATION_ERROR"
     /\ opOutcome.error[1].retryable = FALSE
     /\ trace = <<>>
     /\ reqOutcome = Pending

C12_Witness ==
  /\ pc = "done"
  /\ op = "update"
  /\ opInput = <<[id |-> Str(<<"m", "1">>), fields |-> {},
                  importance |-> NoImportance]>>
  /\ opOutcome.kind = "error"
  /\ opOutcome.error[1].code = "VALIDATION_ERROR"
  /\ trace = <<>>

\* C13: provided every fetch call responds, fails or is aborted by its
\* timeout, and every backoff wait elapses, an operation that was called
\* terminates, with a result or with one raised error.
C13_OperationTerminates ==
  (pc \in {"fetch", "text", "sleep"})
    ~> (pc = "done" /\ opOutcome.kind \in {"result", "error"})

\* C14: an attempt lasts at most the timeout: in whichever stage it is
\* (waiting for the response, or reading the body of a response that has
\* arrived) its timeout timer is pending and, when it fires, fails the attempt
\* as TIMEOUT.
C14_TimeoutCoversEveryStage ==
  pc \in {"fetch", "text"} => (timer /\ ENABLED TimeoutFires)

\* C15: a timeout ends only the attempt in flight.  When attempt i < maxRetries
\* timed out, the operation has not ended by it: it waits retryDelay * 2^i and
\* then starts attempt i+1, whose own timeout timer is pending while its fetch
\* is in flight.
C15_TimeoutAbortsOnlyAttempt ==
  \A k \in DOMAIN outcomes :
    (outcomes[k].kind = "timeout" /\ k - 1 < config.maxRetries)
    => /\ Len(trace) >= 2 * k
       /\ trace[2 * k - 1] = FetchEvent(k - 1)
       /\ trace[2 * k] = SleepEvent(config.retryDelay * 2 ^ (k - 1))
       /\ Len(trace) > 2 * k => trace[2 * k + 1] = FetchEvent(k)
       /\ k = Len(outcomes)
            => /\ pc \in {"sleep", "fetch", "text"}
               /\ reqOutcome = Pending
               /\ opOutcome = Pending
               /\ pc = "sleep" => Len(trace) = 2 * k
               /\ pc = "fetch" => (attempt = k /\ timer)

\* attempt 0 timed out and attempt 1 succeeded
C15_Witness ==
  /\ pc = "done"
  /\ config.maxRetries = 2
  /\ Len(outcomes) = 2
  /\ outcomes[1].kind = "timeout"
  /\ outcomes[2] = AttemptOutcome("success", <<200>>, <<"{\"id\":\"m1\"}">>)
  /\ reqOutcome = Return("Object(id=m1)")
  /\ trace = <<FetchEvent(0), SleepEvent(config.retryDelay), FetchEvent(1)>>

\* the calls made on the client
Calls == IF other = <<>> THEN {Locals} ELSE {Locals, other[1].call}

\* What a call has done once it has received the responses c.outcomes, as
\* the retry rule alone fixes it: the attempt index, the fetch calls and the
\* waits, the timer and whether an error is stored.
Solo(c) ==
  LET n == Len(c.outcomes) IN
    /\ c.pc \in {"fetch", "text"}
         => c.attempt = n /\ c.trace = ExpectedTrace(n + 1)
    /\ c.pc = "sleep"
         => /\ n >= 1
            /\ c.attempt = n - 1
            /\ c.trace = Append(ExpectedTrace(n),
                           SleepEvent(config.retryDelay * 2 ^ (n - 1)))
    /\ c.pc = "done"
         => /\ c.trace = ExpectedTrace(n)
            /\ n >= 1 => /\ c.attempt = n - 1
                         /\ c.reqOutcome.kind =
                              (IF c.outcomes[n].kind = "success"
                                 THEN "result" ELSE "error")
    /\ c.timer = (c.pc = "fetch")
    /\ c.lastError = <<>> <=> (n = 0 \/ (n = 1 /\ c.pc = "done"))

\* two calls that were given the same argument and the same responses
SameCourse(a, b) ==
  /\ a.op = b.op
  /\ a.opInput = b.opInput
  /\ a.outcomes = b.outcomes
  /\ a.response = b.response
  /\ a.pc = b.pc

\* C16: two calls in progress at once on one client each keep their own
\* attempt index, stored error and timer, and the configuration is only read:
\* each call makes the attempts and waits and has the outcome it would have
\* alone, and two calls given the same argument and responses do the same.
C16_ConcurrentCallsIndependent ==
  /\ [](other # <<>> /\ other[1].overlap
          => /\ \A c \in Calls : Solo(c)
             /\ SameCourse(Locals, other[1].call)
                  => [Locals EXCEPT !.stale = {}]
                       = [other[1].call EXCEPT !.stale = {}])
  /\ [][config' = config]_vars

\* Two overlapping calls have ended differently: one timed out, waited and
\* succeeded on attempt 1, the other was refused on attempt 0.
C16_Witness ==
  /\ other # <<>>
  /\ other[1].overlap
  /\ config.maxRetries = 1
  /\ pc = "done"
  /\ other[1].call.pc = "done"
  /\ Len(outcomes) = 2
  /\ outcomes[1].kind = "timeout"
  /\ outcomes[2].kind = "success"
  /\ trace = ExpectedTrace(2)
  /\ Len(other[1].call.outcomes) = 1
  /\ IsStatus(other[1].call.outcomes[1], 404)
  /\ other[1].call.trace = <<FetchEvent(0)>>

\* C17: nothing of an operation survives it.  An operation called after
\* another one has ended starts at attempt 0 with no stored error, its first
\* wait is retryDelay, and with the same argument and the same responses as
\* the earlier one it makes the same attempts and waits and ends the same.
C17_NoStateSurvivesOperation ==
  (other # <<>> /\ ~other[1].overlap)
  => /\ other[1].call.pc = "done"
     /\ trace # <<>> => trace[1] = FetchEvent(0)
     /\ Len(trace) >= 2 => trace[2] = SleepEvent(config.retryDelay)
     /\ outcomes = <<>> => lastError = <<>>
     /\ Solo(Locals)
     /\ SameCourse(Locals, other[1].call)
          => /\ trace = other[1].call.trace
             /\ reqOutcome = other[1].call.reqOutcome
             /\ opOutcome = other[1].call.opOutcome

\* The earlier operation used up its attempts on 503 responses; the later
\* one, given the same responses, did the same.
C17_Witness ==
  /\ other # <<>>
  /\ ~other[1].overlap
  /\ config.maxRetries = 1
  /\ pc = "done"
  /\ SameCourse(Locals, other[1].call)
  /\ Len(outcomes) = 2
  /\ IsStatus(outcomes[1], 503)
  /\ IsStatus(outcomes[2], 503)
  /\ trace = ExpectedTrace(2)
  /\ reqOutcome.kind = "error"
  /\ reqOutcome.error[1].code = "SERVER_ERROR"

\* request() was entered: the operation passed its validation
RequestStarted == pc # "idle" /\ ~(pc = "done" /\ reqOutcome = Pending)

\* a step of the pipeline: a response, a failure, a timeout or the end of a wait
PipelineStep ==
  \/ FetchSettles
  \/ \E body \in Bodies : TextResolves(body)
  \/ TextRejects
  \/ SleepElapses

\* C18: the steps of an operation follow START -> ATTEMPT(i) -> {SUCCESS |
\* FAIL_FATAL | FAIL_RETRYABLE_LAST | FAIL_RETRYABLE_MORE -> WAIT ->
\* ATTEMPT(i+1)}.  The first step is attempt 0; attempts and waits alternate;
\* the operation waits only after attempt i < maxRetries failed with a
\* retryable error and attempt i+1 follows the wait; the operation ends
\* straight after an attempt that succeeded, failed with a non-retryable
\* error or was attempt maxRetries; nothing follows the end.
C18_StepsFollowStateMachine ==
  RequestStarted
  => /\ trace # <<>>
     /\ \A j \in DOMAIN trace :
          IF j % 2 = 1 THEN trace[j] = FetchEvent((j - 1) \div 2)
          ELSE trace[j].ev = "sleep"
     /\ pc \in {"fetch", "text"}
          => /\ trace[Len(trace)] = FetchEvent(attempt)
             /\ Len(outcomes) = attempt
     /\ pc = "sleep"
          => /\ trace[Len(trace)].ev = "sleep"
             /\ trace[Len(trace) - 1] = FetchEvent(attempt)
             /\ Len(outcomes) = attempt + 1
             /\ outcomes[Len(outcomes)].kind # "success"
             /\ lastError # <<>>
             /\ lastError[1].retryable
             /\ attempt < config.maxRetries
             /\ ENABLED SleepElapses
     /\ pc = "done"
          => /\ trace[Len(trace)] = FetchEvent(attempt)
             /\ Len(outcomes) = attempt + 1
             /\ \/ outcomes[Len(outcomes)].kind = "success"
                     /\ reqOutcome.kind = "result"
                \/ outcomes[Len(outcomes)].kind # "success"
                     /\ reqOutcome.kind = "error"
                     /\ (~reqOutcome.error[1].retryable
                           \/ attempt = config.maxRetries)
             /\ ~ENABLED PipelineStep

\* the codes of the error taxonomy
Taxonomy == {"VALIDATION_ERROR", "UNAUTHORIZED", "NOT_FOUND", "RATE_LIMITED",
             "SERVER_ERROR", "TIMEOUT", "NETWORK_ERROR", "UNKNOWN"}

\* C19: whatever fails in the pipeline (network fault, timeout, body that
\* cannot be read or parsed, non-success status), what is raised is a VXError
\* with a code of the taxonomy, made from the failure of the last attempt; an
\* operation raises nothing before it ends, so the failures of the attempts
\* that were retried never reach the caller.
C19_OnlyClassifiedErrorsRaised ==
  /\ pc # "done" => (reqOutcome = Pending /\ opOutcome = Pending)
  /\ \A out \in {reqOutcome, opOutcome} :
       out.kind = "error"
       => /\ pc = "done"
          /\ Len(out.error) = 1
          /\ out.error[1].name = "VXError"
          /\ out.error[1].code \in Taxonomy
          /\ out.error[1].retryable \in BOOLEAN
  /\ (RequestFailed /\ outcomes # <<>>)
       => LET last == outcomes[Len(outcomes)]
              e == reqOutcome.error[1]
          IN  /\ last.kind # "success"
              /\ last.kind = "network_error" => e.code = "NETWORK_ERROR"
              /\ last.kind = "timeout" => e.code = "TIMEOUT"
              /\ last.kind = "http_error"
                   => /\ e.code = TableCode(last.status[1])
                      /\ e.statusCode = last.status
  /\ (pc = "done" /\ op \in PropagatingOperations /\ reqOutcome # Pending)
       => (opOutcome.kind = "error" <=> reqOutcome.kind = "error")
  /\ op = "healthCheck" => opOutcome.kind # "error"

\* Two attempts were retried without the caller seeing their failures (a
\* timeout, a 503) and the network fault of the third was raised classified.
C19_Witness ==
  /\ pc = "done"
  /\ op = "query"
  /\ config.maxRetries = 2
  /\ Len(outcomes) = 3
  /\ outcomes[1].kind = "timeout"
  /\ IsStatus(outcomes[2], 503)
  /\ outcomes[3].kind = "network_error"
  /\ opOutcome.kind = "error"
  /\ opOutcome.error[1].name = "VXError"
  /\ opOutcome.error[1].code = "NETWORK_ERROR"

\* C20: an attempt whose fetch fails without a timeout abort is classified
\* NETWORK_ERROR with retryable = true.  On an attempt i < maxRetries the
\* operation waits retryDelay * 2^i and makes attempt i+1; on attempt
\* maxRetries the error is raised, after exactly maxRetries+1 attempts.
C20_NetworkErrorRetriedThenRaised ==
  \A k \in DOMAIN outcomes :
    outcomes[k].kind = "network_error"
    => IF k - 1 < config.maxRetries
         THEN /\ Len(trace) >= 2 * k
              /\ trace[2 * k] = SleepEvent(config.retryDelay * 2 ^ (k - 1))
              /\ Len(trace) > 2 * k => trace[2 * k + 1] = FetchEvent(k)
              /\ k = Len(outcomes)
                   => /\ pc # "done"
                      /\ reqOutcome = Pending
                      /\ lastError # <<>>
                      /\ lastError[1].code = "NETWORK_ERROR"
                      /\ lastError[1].retryable = TRUE
         ELSE /\ k = Len(outcomes)
              /\ k = config.maxRetries + 1
              /\ pc = "done"
              /\ reqOutcome.kind = "error"
              /\ reqOutcome.error[1].code = "NETWORK_ERROR"
              /\ reqOutcome.error[1].retryable = TRUE
              /\ Len(Fetches) = config.maxRetries + 1
              /\ Len(Sleeps) = config.maxRetries
              /\ (op \in PropagatingOperations => opOutcome = reqOutcome)

\* every attempt met a network failure: three attempts, then NETWORK_ERROR
C20_Witness ==
  /\ pc = "done"
  /\ config.maxRetries = 2
  /\ config.retryDelay = 1
  /\ Len(outcomes) = 3
  /\ \A k \in DOMAIN outcomes : outcomes[k].kind = "network_error"
  /\ trace = <<FetchEvent(0), SleepEvent(1), FetchEvent(1), SleepEvent(2),
               FetchEvent(2)>>
  /\ reqOutcome.kind = "error"
  /\ reqOutcome.error[1].code = "NETWORK_ERROR"
  /\ reqOutcome.error[1].retryable = TRUE

\* C21: healthCheck never raises.  However request() ends (success, an
\* error status, a network error, a timeout on every attempt) healthCheck
\* returns {ok, latency}, with ok = false when request() ended in an error
\* and ok = true when it ended in success.
C21_HealthCheckNeverRaises ==
  (op = "healthCheck" /\ pc = "done")
  => /\ reqOutcome.kind \in {"result", "error"}
     /\ opOutcome.kind = "result"
     /\ opOutcome.error = <<>>
     /\ Len(opOutcome.health) = 1
     /\ opOutcome.health[1].ok = (reqOutcome.kind = "result")
     /\ opOutcome.health[1].latency \in 0..MaxLatency

\* every attempt of a healthCheck timed out and it returned ok = false
C21_Witness ==
  /\ op = "healthCheck"
  /\ pc = "done"
  /\ config.maxRetries = 1
  /\ Len(outcomes) = 2
  /\ \A k \in DOMAIN outcomes : outcomes[k].kind = "timeout"
  /\ reqOutcome.kind = "error"
  /\ reqOutcome.error[1].code = "TIMEOUT"
  /\ opOutcome.kind = "result"
  /\ opOutcome.health[1].ok = FALSE

\* C22: healthCheck reports ok = true whenever the health endpoint answered
\* with a 2xx status, whatever the body is: empty, JSON, text that is not
\* JSON, or a body that cannot be read.
C22_HealthyOnAny2xx ==
  (/\ op = "healthCheck"
   /\ pc = "done"
   /\ outcomes # <<>>
   /\ outcomes[Len(outcomes)].status # <<>>
   /\ ResponseOk(outcomes[Len(outcomes)].status[1]))
  => /\ opOutcome.kind = "result"
     /\ opOutcome.health[1].ok = TRUE

\* C23: one healthCheck makes at most 2 attempts, whatever maxRetries the
\* client is configured with.
C23_HealthCheckProbesBriefly ==
  op = "healthCheck" => Len(Fetches) <= 2

\* the constructor was called and returned a client
Constructed == ctor # <<>> /\ ctor[1].outcome.kind = "result"

\* C24: a client constructed with maxRetries = 0 keeps the 0 (the default 3
\* does not replace it); each of its operations makes exactly one attempt
\* and never waits, and a retryable failure of that attempt is raised
\* directly.
C24_ZeroRetriesKept ==
  (Constructed /\ ctor[1].input.maxRetries = <<0>>)
  => /\ config.maxRetries = 0
     /\ Len(Fetches) <= 1
     /\ Sleeps = <<>>
     /\ pc # "sleep"
     /\ RequestEnded => (trace = <<FetchEvent(0)>> /\ Len(outcomes) = 1)
     /\ outcomes # <<>>
          => /\ pc = "done"
             /\ outcomes[1].kind = "success" <=> reqOutcome.kind = "result"
             /\ outcomes[1].kind = "timeout"
                  => /\ reqOutcome.error[1].code = "TIMEOUT"
                     /\ reqOutcome.error[1].retryable
             /\ outcomes[1].kind = "network_error"
                  => /\ reqOutcome.error[1].code = "NETWORK_ERROR"
                     /\ reqOutcome.error[1].retryable
             /\ outcomes[1].kind = "http_error"
                  => /\ reqOutcome.error[1].code = TableCode(outcomes[1].status[1])
                     /\ reqOutcome.error[1].statusCode = outcomes[1].status

\* with maxRetries = 0 a 503 on the only attempt was raised at once
C24_Witness ==
  /\ Constructed
  /\ ctor[1].input.maxRetries = <<0>>
  /\ pc = "done"
  /\ op = "list"
  /\ trace = <<FetchEvent(0)>>
  /\ Len(outcomes) = 1
  /\ IsStatus(outcomes[1], 503)
  /\ opOutcome.kind = "error"
  /\ opOutcome.error[1].code = "SERVER_ERROR"
  /\ opOutcome.error[1].retryable = TRUE

\* C25: every client the constructor returns has maxRetries >= 0, so that
\* every operation that passes validation calls fetch at least once before
\* it ends.
C25_RetriesNonNegative ==
  Constructed
  => /\ config.maxRetries >= 0
     /\ RequestEnded => Len(Fetches) >= 1

\* texts that are not URLs: no scheme, a path only, a scheme with no host
NotUrls == {Str(<<"a.io">>), Str(<<"/", "a.io">>),
            Str(<<"https", ":", "/", "/">>)}

Missing == {Undefined, Str(<<>>)}

\* C26: the constructor called with no base URL, with no or an empty
\* credential, or with a base URL that is not a URL, throws a VXError with
\* code VALIDATION_ERROR; there is no client, and nothing is ever fetched.
C26_BadConfigRejected ==
  (/\ ctor # <<>>
   /\ \/ ctor[1].input.apiUrl \in Missing
      \/ ctor[1].input.apiKey \in Missing
      \/ ctor[1].input.apiUrl \in NotUrls)
  => /\ pc = "failed"
     /\ ctor[1].outcome.kind = "error"
     /\ ctor[1].outcome.error[1].name = "VXError"
     /\ ctor[1].outcome.error[1].code = "VALIDATION_ERROR"
     /\ config = NoConfig
     /\ op = "none"
     /\ trace = <<>>
     /\ outcomes = <<>>
     /\ ~ENABLED CtorNext

\* the constructor threw for a base URL with no scheme
C26_Witness ==
  /\ ctor # <<>>
  /\ ctor[1].input.apiUrl = Str(<<"a.io">>)
  /\ ctor[1].input.apiKey = Str(<<"k">>)
  /\ pc = "failed"
  /\ ctor[1].outcome.kind = "error"
  /\ ctor[1].outcome.error[1].code = "VALIDATION_ERROR"
  /\ ctor[1].outcome.error[1].message = "Invalid VX_API_URL"

\* C27: the base URL a client stores does not end with a slash; the URL of
\* every request is that base followed by the path of the operation, which
\* begins with exactly one slash; and a client built from a base URL with a
\* trailing slash has the base, hence the request URLs, of the client built
\* from the same text without that slash.
C27_BaseUrlNormalized ==
  Constructed
  => LET given == ctor[1].input.apiUrl.v
         base == ctor[1].apiUrl[1]
     IN  /\ base[Len(base)] # "/"
         /\ given[Len(given)] = "/"
              => base = StripTrailingSlash(SubSeq(given, 1, Len(given) - 1))
         /\ (trace # <<>> /\ opInput # <<>>)
              => LET endpoint == Endpoint(op, opInput[1]) IN
                   /\ endpoint[1] = "/"
                   /\ endpoint[2] # "/"
                   /\ RequestUrl(base, endpoint)[Len(base)] # "/"
                   /\ RequestUrl(base, endpoint)[Len(base) + 1] = "/"
                   /\ RequestUrl(base, endpoint)[Len(base) + 2] # "/"

\* C28: the base URL of every client the constructor returns has the scheme
\* http or https; a URL with another scheme is rejected.
C28_SchemeIsHttp ==
  (ctor # <<>> /\ ctor[1].input.apiUrl.t = "string"
     /\ ctor[1].input.apiUrl.v # <<>>
     /\ ctor[1].input.apiUrl.v[1] \notin {"http", "https"})
  => /\ pc = "failed"
     /\ ctor[1].outcome.kind = "error"
     /\ ctor[1].outcome.error[1].code = "VALIDATION_ERROR"

\* C29: store called with a content that is empty or has whitespace only
\* raises VALIDATION_ERROR, and fetch is not called.
C29_BlankContentRejected ==
  (/\ op = "store"
   /\ opInput # <<>>
   /\ opInput[1].content.t = "string"
   /\ Blank(opInput[1].content.v))
  => /\ pc = "done"
     /\ opOutcome.kind = "error"
     /\ opOutcome.error[1].name = "VXError"
     /\ opOutcome.error[1].code = "VALIDATION_ERROR"
     /\ trace = <<>>
     /\ reqOutcome = Pending

\* store was called with a tab and a newline as content
C29_Witness ==
  /\ op = "store"
  /\ opInput # <<>>
  /\ opInput[1].content = Str(<<"\t", "\n">>)
  /\ opInput[1].importance = NoImportance
  /\ pc = "done"
  /\ opOutcome.kind = "error"
  /\ opOutcome.error[1].code = "VALIDATION_ERROR"
  /\ opOutcome.error[1].message = "content cannot be empty or whitespace"
  /\ trace = <<>>

importanceMessages == {"importance must be a number between 0 and 1",
                       "importance must be between 0 and 1"}

\* C30: store and update called with an importance that is a number outside
\* [0,1] raise VALIDATION_ERROR without calling fetch; called with an
\* importance in [0,1], the bounds 0 and 1 included, they do not reject the
\* input because of the importance.
C30_ImportanceRangeChecked ==
  (op \in {"store", "update"} /\ opInput # <<>>)
  => /\ OutOfRange(opInput[1].importance)
          => /\ pc = "done"
             /\ opOutcome.kind = "error"
             /\ opOutcome.error[1].code = "VALIDATION_ERROR"
             /\ trace = <<>>
             /\ reqOutcome = Pending
     /\ InUnitInterval(opInput[1].importance)
          => \/ opOutcome.kind # "error"
             \/ opOutcome.error[1].message \notin importanceMessages

\* C31: update called with a valid id and none of content, context,
\* memoryType and importance raises VALIDATION_ERROR and fetch is not called;
\* called with a valid id and at least one of them (the importance, if
\* supplied, in [0,1]) it passes validation and calls request().
C31_UpdateNeedsAField ==
  (op = "update" /\ opInput # <<>> /\ NonEmptyString(opInput[1].id))
  => LET arg == opInput[1]
         none == arg.fields = {} /\ arg.importance.t = "undefined"
     IN  /\ none
              => /\ pc = "done"
                 /\ opOutcome.kind = "error"
                 /\ opOutcome.error[1].code = "VALIDATION_ERROR"
                 /\ opOutcome.error[1].message
                      = "At least one field to update is required"
                 /\ trace = <<>>
                 /\ reqOutcome = Pending
         /\ (~none /\ (arg.importance.t = "undefined"
                         \/ InUnitInterval(arg.importance)))
              => /\ RequestStarted
                 /\ config.maxRetries >= 0 => trace[1] = FetchEvent(0)

\* update was called with an id and nothing to change
C31_Witness ==
  /\ op = "update"
  /\ opInput = <<[id |-> Str(<<"m", "1">>), fields |-> {},
                  importance |-> NoImportance]>>
  /\ pc = "done"
  /\ opOutcome.kind = "error"
  /\ opOutcome.error[1].message = "At least one field to update is required"
  /\ trace = <<>>
  /\ reqOutcome = Pending

\* the failures the documentation says are retried: a network error (a body
\* stream that fails included), a timeout, a 5xx response, a 429 response
DocumentedRetry(out) ==
  \/ out.kind \in {"network_error", "body_error", "timeout"}
  \/ out.kind = "http_error" /\ (out.status[1] = 429
                                 \/ out.status[1] \in 500..599)

\* C35: while attempts remain, an attempt is followed by a wait and another
\* attempt exactly when it ended in a network error, a timeout, a 5xx
\* response or a 429 response; after a success or any other response the
\* operation ends.
C35_RetriesExactlyDocumented ==
  \A k \in DOMAIN outcomes :
    k - 1 < config.maxRetries
    => /\ DocumentedRetry(outcomes[k])
            => /\ Len(trace) >= 2 * k
               /\ trace[2 * k].ev = "sleep"
               /\ Len(trace) > 2 * k => trace[2 * k + 1] = FetchEvent(k)
       /\ ~DocumentedRetry(outcomes[k])
            => /\ k = Len(outcomes)
               /\ pc = "done"
               /\ Len(trace) = 2 * k - 1

\* C36: a response with a status from 500 to 599 makes an error with code
\* SERVER_ERROR and retryable = true.
C36_Every5xxIsServerError ==
  (/\ outcomes # <<>>
   /\ outcomes[Len(outcomes)].kind = "http_error"
   /\ outcomes[Len(outcomes)].status[1] \in 500..599)
  => /\ LastAttemptError.code = "SERVER_ERROR"
     /\ LastAttemptError.retryable = TRUE
     /\ LastAttemptError.statusCode = outcomes[Len(outcomes)].status

\* the error request() makes of a failed attempt
ErrorOfAttempt(out) ==
  CASE out.kind = "http_error" ->
         VXError("VX API error", TableCode(out.status[1]), out.status,
                 out.status[1] >= 500 \/ out.status[1] = 429)
    [] out.kind = "timeout" ->
         VXError("Request timed out", "TIMEOUT", <<>>, TRUE)
    [] OTHER -> VXError("Network error", "NETWORK_ERROR", <<>>, TRUE)

\* C38: the error an operation raises is the one made by the attempt that
\* failed last, with its code, status and retryable flag, not the error of an
\* attempt that was retried: 503 then a timeout on the last attempt raises
\* TIMEOUT; 500 then 404 raises NOT_FOUND after two attempts.
C38_LastFailureIsRaised ==
  (RequestFailed /\ outcomes # <<>>)
  => /\ outcomes[Len(outcomes)].kind # "success"
     /\ reqOutcome.error[1] = ErrorOfAttempt(outcomes[Len(outcomes)])
     /\ op \in PropagatingOperations => opOutcome = reqOutcome
     /\ (Len(outcomes) = 2 /\ IsStatus(outcomes[1], 503)
           /\ outcomes[2].kind = "timeout")
          => reqOutcome.error[1].code = "TIMEOUT"
     /\ (Len(outcomes) >= 2 /\ IsStatus(outcomes[1], 500)
           /\ IsStatus(outcomes[2], 404))
          => /\ reqOutcome.error[1].code = "NOT_FOUND"
             /\ reqOutcome.error[1].statusCode = <<404>>
             /\ reqOutcome.error[1].retryable = FALSE
             /\ Len(Fetches) = 2

\* 500 on attempt 0, 404 on attempt 1: NOT_FOUND is raised
C38_Witness ==
  /\ pc = "done"
  /\ op = "delete"
  /\ config.maxRetries = 3
  /\ Len(outcomes) = 2
  /\ IsStatus(outcomes[1], 500)
  /\ IsStatus(outcomes[2], 404)
  /\ lastError # <<>>
  /\ lastError[1].code = "SERVER_ERROR"
  /\ opOutcome.kind = "error"
  /\ opOutcome.error[1].code = "NOT_FOUND"
  /\ Len(Fetches) = 2

\* C39: the timeout timer of an attempt that ended in a network error stays
\* pending (only such attempts leave one).  When it fires, during the wait,
\* during a later attempt or after the end, nothing of the operation changes:
\* the attempt in flight is not aborted, no outcome becomes a timeout, the
\* result stays.
C39_StaleTimerHarmless ==
  /\ [](\A att \in stale :
          /\ att + 1 <= Len(outcomes)
          /\ outcomes[att + 1].kind = "network_error")
  /\ [][(stale' # stale /\ stale' \subseteq stale)
          => UNCHANGED <<pc, attempt, lastError, response, timer, trace,
                         outcomes, reqOutcome, opOutcome>>]_vars
  /\ [][(pc = "fetch" /\ pc' # "fetch" /\ Len(outcomes') > Len(outcomes)
           /\ outcomes'[Len(outcomes')].kind = "timeout")
          => timer /\ stale' = stale]_vars

\* Attempt 0 ended in a network error; its timer has fired since; attempt 1
\* succeeded.
C39_Witness ==
  /\ pc = "done"
  /\ config.maxRetries = 1
  /\ Len(outcomes) = 2
  /\ outcomes[1].kind = "network_error"
  /\ outcomes[2].kind = "success"
  /\ stale = {}
  /\ reqOutcome.kind = "result"

\* the argument has a value for field f
SuppliedField(arg, f) ==
  IF f = "importance" THEN arg.importance.t # "undefined"
  ELSE Get(arg, f).t # "undefined"

\* the body of the first request the operation sent
SentBody == sent[1].body[1]

\* the base URL of the client followed by the path
UnderBase(path) == ctor[1].apiUrl[1] \o path

\* C32: the PATCH body of update holds exactly the fields of content,
\* context, memoryType and importance that the caller supplied, each with the
\* supplied value; the id is not in the body, it is in the path
\* /v1/memories/{id}.
C32_PatchBodyIsTheChange ==
  (op = "update" /\ sent # <<>>)
  => LET arg == opInput[1] IN
       /\ sent[1].method = <<"PATCH">>
       /\ sent[1].url
            = UnderBase(<<"/", "v1", "/", "memories", "/">> \o arg.id.v)
       /\ sent[1].body # <<>>
       /\ DOMAIN SentBody
            = {f \in UpdateFields \cup {"importance"} : SuppliedField(arg, f)}
       /\ \A f \in DOMAIN SentBody :
            SentBody[f] = IF f = "importance" THEN arg.importance
                          ELSE Get(arg, f)

\* C33: a default is put in a body only for a field the caller left out:
\* store sends memoryType SEMANTIC and importance 0.5, query sends limit 10,
\* the context packet request sends maxTokens 4000; a supplied value is sent
\* as it is.
C33_DefaultsOnlyWhenAbsent ==
  (sent # <<>> /\ op \in {"store", "query", "getContextPacket"})
  => LET arg == opInput[1]
         Expected(f, default) ==
           IF SuppliedField(arg, f)
             THEN (IF f = "importance" THEN arg.importance ELSE Get(arg, f))
             ELSE default
     IN  /\ sent[1].body # <<>>
         /\ op = "store"
              => /\ SentBody.memoryType
                      = Expected("memoryType", Str(<<"SEMANTIC">>))
                 /\ SentBody.importance
                      = Expected("importance", Importance(5))
         /\ op = "query"
              => SentBody.limit = Expected("limit", Num(<<"10">>))
         /\ op = "getContextPacket"
              => SentBody.maxTokens
                   = Expected("maxTokens", Num(<<"4000">>))

\* the query string of the URL: what follows "?", or nothing
RECURSIVE AfterQuestionMark(_)
AfterQuestionMark(url) ==
  IF url = <<>> THEN <<>>
  ELSE IF Head(url) = "?" THEN Tail(url)
  ELSE AfterQuestionMark(Tail(url))

\* parameter name is in the query string
HasParam(qs, name) ==
  \E i \in 1..(Len(qs) - 1) :
    /\ qs[i] = name
    /\ qs[i + 1] = "="
    /\ i = 1 \/ qs[i - 1] = "&"

ListFilters == {"limit", "offset", "context", "memoryType"}

\* C34: list without filters requests /v1/memories and no query string; with
\* context and memoryType it requests a query string holding both; each of
\* limit, offset, context, memoryType is in the query string exactly when the
\* caller supplied it.
C34_ListQueryString ==
  (op = "list" /\ sent # <<>>)
  => LET arg == opInput[1]
         qs == AfterQuestionMark(sent[1].url)
     IN  /\ (\A f \in ListFilters : ~SuppliedField(arg, f))
              => sent[1].url = UnderBase(<<"/", "v1", "/", "memories">>)
         /\ (SuppliedField(arg, "context") /\ SuppliedField(arg, "memoryType"))
              => HasParam(qs, "context") /\ HasParam(qs, "memoryType")
         /\ \A f \in ListFilters : HasParam(qs, f) <=> SuppliedField(arg, f)

\* C37: every attempt, the first and each retry, passes fetch the same
\* method, URL and body, with the headers Content-Type: application/json,
\* X-API-Key (the key of the client), X-Client (vx-mcp/ and the version) and
\* X-Source (the source of the configuration).
C37_SameRequestEveryAttempt ==
  Constructed
  => /\ Len(sent) = Len(Fetches)
     /\ \A i \in DOMAIN sent :
          /\ sent[i].method = sent[1].method
          /\ sent[i].url = sent[1].url
          /\ sent[i].body = sent[1].body
          /\ sent[i].headers = sent[1].headers
          /\ sent[i].method
               = (CASE op \in {"store", "query", "getContextPacket"}
                         -> <<"POST">>
                    [] op = "update" -> <<"PATCH">>
                    [] op = "delete" -> <<"DELETE">>
                    [] OTHER -> <<>>)
          /\ (sent[i].body # <<>>)
               <=> op \in {"store", "update", "query", "getContextPacket"}
          /\ DOMAIN sent[i].headers = HeaderNames
          /\ sent[i].headers["Content-Type"] = <<"application/json">>
          /\ sent[i].headers["X-API-Key"] = ctor[1].input.apiKey.v
          /\ sent[i].headers["X-Client"] = <<"vx-mcp/", "0.3.0">>
          /\ sent[i].headers["X-Source"]
               = (IF ctor[1].input.source.t = "undefined" THEN <<"mcp">>
                  ELSE ctor[1].input.source.v)

\* store was retried once and both attempts carried the body
C37_Witness ==
  /\ Constructed
  /\ pc = "done"
  /\ op = "store"
  /\ Len(Fetches) = 2
  /\ Len(sent) = 2
  /\ sent[2].body # <<>>
  /\ sent[2].method = <<"POST">>
  /\ ctor[1].input.source = Str(<<"cursor">>)
  /\ sent[2].headers["X-Source"] = <<"cursor">>

\* the text of the response the handler returned
ResponseText == tool[1].response[1].content[1].text

\* C40: the tool-call handler never throws.  An error raised by the client
\* operation and a call of an unknown tool are answered with isError = true;
\* for a VXError the text starts with "Error: <code>: <message>", and the
\* note that the error may be temporary follows exactly when the error is
\* retryable.
C40_HandlerAlwaysAnswers ==
  tool # <<>>
  => /\ tool[1].state \in {"awaiting", "returned"}
     /\ tool[1].state = "returned"
          => /\ Len(tool[1].response) = 1
             /\ Len(tool[1].response[1].content) = 1
             /\ tool[1].response[1].content[1].type = "text"
     /\ (tool[1].state = "returned" /\ tool[1].name \notin ToolNames)
          => /\ tool[1].response[1].isError = <<TRUE>>
             /\ ResponseText = <<"Error: ", "Unknown tool: ", tool[1].name>>
             /\ trace = <<>>
     /\ (tool[1].state = "returned" /\ opOutcome.kind = "error")
          => LET e == opOutcome.error[1] IN
               /\ tool[1].response[1].isError = <<TRUE>>
               /\ Len(ResponseText) >= 4
               /\ SubSeq(ResponseText, 1, 4)
                    = <<"Error: ", e.code, ": ", e.message>>
               /\ e.retryable
                    => ResponseText
                         = <<"Error: ", e.code, ": ", e.message,
                             " (this error may be temporary, please try again)">>
               /\ ~e.retryable
                    => ResponseText = <<"Error: ", e.code, ": ", e.message>>
     /\ (tool[1].state = "returned" /\ tool[1].name \in ToolNames
           /\ opOutcome.kind = "result")
          => (tool[1].response[1].isError = <<TRUE>>
                <=> tool[1].name \in {"vx_query", "vx_list"})

\* vx_query ended with a retryable error after its retry and the handler
\* answered with the note
C40_Witness ==
  /\ tool # <<>>
  /\ tool[1].name = "vx_query"
  /\ tool[1].state = "returned"
  /\ Len(Fetches) = config.maxRetries + 1
  /\ Len(Fetches) >= 2
  /\ opOutcome.kind = "error"
  /\ opOutcome.error[1].code = "RATE_LIMITED"
  /\ opOutcome.error[1].retryable
  /\ tool[1].response[1].isError = <<TRUE>>
  /\ ResponseText[Len(ResponseText)]
       = " (this error may be temporary, please try again)"

=============================================================================
